---- MODULE Spec2Model ----
(***************************************************************************)
(* map_vec: Map<K, V> (src/src/map.rs) and Set<T> (src/src/set.rs), two     *)
(* containers over one Vec each.  Vec indices are 1-based here (Rust's      *)
(* index i is i+1), and position 0 stands for Option::None of a position.   *)
(***************************************************************************)
EXTENDS Integers, Sequences, FiniteSets, TLC

\* ------------------------------------------------------------------ bounds
\* Pushes are taken only while the backing Vec is shorter than MaxLen.
MaxLen == 3
\* Longest logged sequence of insertions.
MaxHist == 3
\* Longest input sequence of extend / from / collect.
MaxExtend == 2

\* ------------------------------------------------------------------ types
\* K (and T) is instantiated by a struct { id, tag } whose Eq compares `id`
\* only and ignores `tag`; id is a three-valued enum.  Q, the borrowed view,
\* is the id.  V is bool.
KeyIds == {1, 2, 3}
Keys == [id : KeyIds, tag : BOOLEAN]
\* the keys whose tag is FALSE
PlainKeys == {k \in Keys : ~k.tag}
Vals == BOOLEAN
\* impl<K: Eq, V> : the key type's equivalence relation
KeyEq(a, b) == a.id = b.id
\* K: Borrow<Q>
Borrow(k) == k.id
\* (K, V)
Pair(k, v) == [key |-> k, val |-> v]
Pairs == [key : Keys, val : Vals]
\* closures FnOnce(&mut V) / the value part of FnMut(&K, &mut V) -> bool
ValFns == [Vals -> Vals]

\* Option<_>
NoneV == [kind |-> "None"]
SomeV(x) == [kind |-> "Some", val |-> x]
\* &mut V / &T into the backing Vec, as the position it designates
Ref(p) == [kind |-> "Ref", pos |-> p]
\* ()
Unit == [kind |-> "Unit"]
\* any other returned value (bool, K, V, a drained sequence)
Value(x) == [kind |-> "Value", val |-> x]
\* the call did not return: it panicked with msg
Panic(msg) == [kind |-> "Panic", msg |-> msg]

\* ------------------------------------------------------------ Vec helpers
\* mutant of SwapRemove: removes by shifting, as Vec::remove does
SwapRemoveShift(s, p) == SubSeq(s, 1, p - 1) \o SubSeq(s, p + 1, Len(s))
\* Vec::swap_remove(pos): the last element takes the removed slot
SwapRemove(s, p) ==
    IF p = Len(s)
    THEN SubSeq(s, 1, Len(s) - 1)
    ELSE SubSeq(s, 1, p - 1) \o <<s[Len(s)]>> \o SubSeq(s, p + 1, Len(s) - 1)
\* Vec::remove(pos): later elements shift left
VecRemove(s, p) == SubSeq(s, 1, p - 1) \o SubSeq(s, p + 1, Len(s))
\* Vec::push
Push(s, x) == Append(s, x)

\* Vec::capacity() as a run observes it; NoCap in a run that does not
NoCap == [tracked |-> FALSE, n |-> 0]
Cap(n) == [tracked |-> TRUE, n |-> n]
\* Vec::new / Vec::default
VecNew == Cap(0)
\* Vec::with_capacity(capacity), of elements that are not zero-sized
WithCapacity(capacity) == Cap(capacity)
\* Vec::push on a full buffer (RawVec::grow_amortized): the capacity doubles,
\* to 4 at least; n is the length the pushes reach
RECURSIVE GrowTo(_, _)
GrowTo(c, n) ==
    IF n <= c THEN c
    ELSE GrowTo(IF 2 * c > 4 THEN 2 * c ELSE 4, n)
\* the capacity once pushes have brought the length to n
Pushed(c, n) == IF c.tracked THEN Cap(GrowTo(c.n, n)) ELSE c
\* mutant of ShrinkToFit: the buffer is left as it is
ShrinkToFitNot(c, len) == c
\* Vec::shrink_to_fit
ShrinkToFit(c, len) == IF c.tracked /\ c.n > len THEN Cap(len) ELSE c
\* usize, narrowed to UsizeBits bits; isize::MAX bounds an allocation's bytes
UsizeBits == 8
UsizeMax == 2 ^ UsizeBits - 1
IsizeMax == 2 ^ (UsizeBits - 1) - 1
\* size_of::<(u8, u8)>(), the element of test_try_reserve's Map<u8, u8>
ElemSize == 2
\* the bytes the allocator can give to one buffer
HeapBytes == ElemSize * (2 * MaxLen + 4)
\* Result<(), TryReserveError>
Ok == [kind |-> "Ok"]
Err(e) == [kind |-> "Err", err |-> e]
\* mutant of TryReserve: the buffer is taken to be grown before the
\* allocator has answered
TryReserveEager(c, len, additional) ==
    IF c.n - len >= additional THEN [cap |-> c, ret |-> Ok]
    ELSE IF len + additional > UsizeMax
    THEN [cap |-> c, ret |-> Err("CapacityOverflow")]
    ELSE LET required == len + additional
             doubled == IF 2 * c.n > required THEN 2 * c.n ELSE required
             new == IF doubled > 4 THEN doubled ELSE 4
         IN  IF new * ElemSize > IsizeMax
             THEN [cap |-> Cap(new), ret |-> Err("CapacityOverflow")]
             ELSE IF new * ElemSize > HeapBytes
             THEN [cap |-> Cap(new), ret |-> Err("AllocError")]
             ELSE [cap |-> Cap(new), ret |-> Ok]
\* Vec::try_reserve(additional) on a buffer of capacity c holding len
\* elements (RawVec::grow_amortized): nothing to do if the room is there;
\* else required = len + additional (checked), the new capacity is
\* max(2 * cap, required, 4), its byte size must not exceed isize::MAX, and
\* the allocator must give it
TryReserve(c, len, additional) ==
    IF c.n - len >= additional THEN [cap |-> c, ret |-> Ok]
    ELSE IF len + additional > UsizeMax
    THEN [cap |-> c, ret |-> Err("CapacityOverflow")]
    ELSE LET required == len + additional
             doubled == IF 2 * c.n > required THEN 2 * c.n ELSE required
             new == IF doubled > 4 THEN doubled ELSE 4
         IN  IF new * ElemSize > IsizeMax
             THEN [cap |-> c, ret |-> Err("CapacityOverflow")]
             ELSE IF new * ElemSize > HeapBytes
             THEN [cap |-> c, ret |-> Err("AllocError")]
             ELSE [cap |-> Cap(new), ret |-> Ok]
\* mutant of Reserve: room for exactly one more element is made
ReserveOne(c, len, additional) ==
    IF c.n - len >= additional THEN [cap |-> c, ret |-> Unit]
    ELSE [cap |-> Cap(len + 1), ret |-> Unit]
\* Vec::reserve(additional): as try_reserve, but CapacityOverflow panics and
\* AllocError aborts the process (handle_alloc_error)
Reserve(c, len, additional) ==
    LET r == TryReserve(c, len, additional)
    IN  IF r.ret = Ok THEN [cap |-> r.cap, ret |-> Unit]
        ELSE IF r.ret.err = "CapacityOverflow"
        THEN [cap |-> c, ret |-> Panic("capacity overflow")]
        ELSE [cap |-> c, ret |-> [kind |-> "Abort"]]
\* no iterator is live
NoIter == [kind |-> "NoIter"]

\* ------------------------------------------------------------------- Map
\* iter().position(|(k, _)| key.eq(k.borrow())) / iter().find(..): first match
Position(b, q) ==
    IF \E i \in 1..Len(b) : Borrow(b[i].key) = q
    THEN CHOOSE i \in 1..Len(b) :
             /\ Borrow(b[i].key) = q
             /\ \A j \in 1..(i - 1) : Borrow(b[j].key) # q
    ELSE 0

\* Map::contains_key
ContainsKey(b, q) == \E i \in 1..Len(b) : q = Borrow(b[i].key)

\* Map::get
Get(b, q) ==
    LET pos == Position(b, q)
    IN  IF pos = 0 THEN NoneV ELSE SomeV(b[pos].val)

\* Map::get_key_value
GetKeyValue(b, q) ==
    LET pos == Position(b, q)
    IN  IF pos = 0 THEN NoneV ELSE SomeV(Pair(b[pos].key, b[pos].val))

\* Map::get_mut
GetMut(b, q) ==
    LET pos == Position(b, q)
    IN  IF pos = 0 THEN NoneV ELSE SomeV(Ref(pos))

\* Map::len
MapLen(b) == Len(b)

\* mutant of Index: an absent key yields a default value instead of failing
IndexOrDefault(b, q) ==
    IF Get(b, q) = NoneV THEN Value(FALSE) ELSE Value(Get(b, q).val)
\* Index<&Q>::index: self.get(key).expect("no entry found for key")
Index(b, q) ==
    IF Get(b, q) = NoneV
    THEN Panic("no entry found for key")
    ELSE Value(Get(b, q).val)

\* mutant of Insert: no existence scan, always pushes
InsertPush(b, key, value) ==
    [backing |-> Push(b, Pair(key, value)), ret |-> NoneV]
\* mutant of Insert: an existing key keeps its old value
InsertKeepFirst(b, key, value) ==
    LET r == GetMut(b, Borrow(key))
    IN  IF r # NoneV
        THEN [backing |-> b, ret |-> SomeV(b[r.val.pos].val)]
        ELSE [backing |-> Push(b, Pair(key, value)), ret |-> NoneV]
\* mutant of Insert: an existing slot is overwritten whole, key included
InsertReplaceKey(b, key, value) ==
    LET r == GetMut(b, Borrow(key))
    IN  IF r # NoneV
        THEN [backing |-> [b EXCEPT ![r.val.pos] = Pair(key, value)],
              ret |-> SomeV(b[r.val.pos].val)]
        ELSE [backing |-> Push(b, Pair(key, value)), ret |-> NoneV]
\* Map::insert
Insert(b, key, value) ==
    LET r == GetMut(b, Borrow(key))
    IN  IF r # NoneV
        THEN [backing |-> [b EXCEPT ![r.val.pos].val = value],
              ret |-> SomeV(b[r.val.pos].val)]
        ELSE [backing |-> Push(b, Pair(key, value)), ret |-> NoneV]

\* mutant of RemoveEntry: pops the last pair instead of the one found
RemoveEntryPop(b, q) ==
    LET pos == Position(b, q)
    IN  IF pos = 0
        THEN [backing |-> b, ret |-> NoneV]
        ELSE [backing |-> SubSeq(b, 1, Len(b) - 1),
              ret |-> SomeV(Pair(b[Len(b)].key, b[Len(b)].val))]
\* Map::remove_entry
RemoveEntry(b, q) ==
    LET pos == Position(b, q)
    IN  IF pos = 0
        THEN [backing |-> b, ret |-> NoneV]
        ELSE [backing |-> SwapRemove(b, pos),
              ret |-> SomeV(Pair(b[pos].key, b[pos].val))]

\* mutant of Remove: hands the value out and leaves the pair in the Vec
RemoveKeep(b, q) ==
    LET pos == Position(b, q)
    IN  [backing |-> b, ret |-> IF pos = 0 THEN NoneV ELSE SomeV(b[pos].val)]
\* Map::remove
Remove(b, q) ==
    LET r == RemoveEntry(b, q)
    IN  [backing |-> r.backing,
         ret |-> IF r.ret = NoneV THEN NoneV ELSE SomeV(r.ret.val.val)]

\* Map::clear
Clear(b) == <<>>

\* Map::drain, run to the end or dropped: yields every pair, leaves nothing
Drain(b) == [backing |-> <<>>, ret |-> Value(b)]

\* mutant of RetainMut: the survivors come out in reverse order
RECURSIVE RetainMutReversed(_, _, _)
RetainMutReversed(b, keep, g) ==
    IF b = <<>> THEN <<>>
    ELSE LET rest == RetainMutReversed(Tail(b), keep, g)
         IN  IF Borrow(Head(b).key) \in keep
             THEN rest \o <<Pair(Head(b).key, g[Head(b).val])>>
             ELSE rest
\* Vec::retain_mut(|(k, v)| f(k, v)) with f(k, v) = { *v = g[*v]; keep(k) }
RECURSIVE RetainMut(_, _, _)
RetainMut(b, keep, g) ==
    IF b = <<>> THEN <<>>
    ELSE LET rest == RetainMut(Tail(b), keep, g)
         IN  IF Borrow(Head(b).key) \in keep
             THEN <<Pair(Head(b).key, g[Head(b).val])>> \o rest
             ELSE rest

\* Map::retain
Retain(b, keep, g) == RetainMut(b, keep, g)

\* mutant of Extend: a pair whose key is present is dropped
RECURSIVE ExtendKeepFirst(_, _)
ExtendKeepFirst(b, items) ==
    IF items = <<>> THEN b
    ELSE ExtendKeepFirst(InsertKeepFirst(b, Head(items).key, Head(items).val).backing,
                         Tail(items))
\* Extend<(K, V)>::extend
RECURSIVE Extend(_, _)
Extend(b, items) ==
    IF items = <<>> THEN b
    ELSE Extend(Insert(b, Head(items).key, Head(items).val).backing, Tail(items))

\* From<Into<Vec<(K, V)>>>::from
From(values) == Extend(<<>>, values)

\* FromIterator::from_iter
FromIter(items) == Extend(<<>>, items)

\* Map::capacity
Capacity(c) == c.n

\* the capacity From::from leaves: with_capacity(values.len()), extend,
\* shrink_to_fit
FromCapacity(values) ==
    ShrinkToFit(Pushed(WithCapacity(Len(values)), Len(From(values))),
                Len(From(values)))

\* the capacity from_iter leaves for an iterator whose size_hint() has the
\* lower bound min: with_capacity(min) if min > 0, else new(); extend;
\* shrink_to_fit
FromIterCapacity(items, min) ==
    ShrinkToFit(Pushed(IF min > 0 THEN WithCapacity(min) ELSE VecNew,
                       Len(FromIter(items))),
                Len(FromIter(items)))

\* ----------------------------------------------------------------- Entry
NoEntry == [kind |-> "NoEntry"]
\* Entry::Occupied(OccupiedEntry { entry_pos, backing })
Occupied(p) == [kind |-> "Occupied", entry_pos |-> p]
\* Entry::Vacant(VacantEntry { key, backing })
Vacant(k) == [kind |-> "Vacant", key |-> k]

\* mutant of EntryOf: compares the whole key, not by the key's Eq
EntryOfExact(b, key) ==
    IF \E i \in 1..Len(b) : b[i].key = key
    THEN Occupied(CHOOSE i \in 1..Len(b) :
                      /\ b[i].key = key
                      /\ \A j \in 1..(i - 1) : b[j].key # key)
    ELSE Vacant(key)
\* Map::entry
EntryOf(b, key) ==
    IF \E i \in 1..Len(b) : KeyEq(b[i].key, key)
    THEN Occupied(CHOOSE i \in 1..Len(b) :
                      /\ KeyEq(b[i].key, key)
                      /\ \A j \in 1..(i - 1) : ~KeyEq(b[j].key, key))
    ELSE Vacant(key)

\* OccupiedEntry::get
OccGet(b, e) == b[e.entry_pos].val
\* OccupiedEntry::get_mut
OccGetMut(b, e) == Ref(e.entry_pos)
\* OccupiedEntry::into_mut
OccIntoMut(b, e) == Ref(e.entry_pos)
\* OccupiedEntry::key
OccKey(b, e) == b[e.entry_pos].key
\* mutant of OccInsert: the value enters as a new pair under the slot's key
OccInsertPush(b, e, value) ==
    [backing |-> Push(b, Pair(b[e.entry_pos].key, value)),
     ret |-> Value(b[e.entry_pos].val)]
\* OccupiedEntry::insert
OccInsert(b, e, value) ==
    [backing |-> [b EXCEPT ![OccGetMut(b, e).pos].val = value],
     ret |-> Value(b[OccGetMut(b, e).pos].val)]
\* mutant of OccRemove: pops the last pair instead of the entry's
OccRemovePop(b, e) ==
    [backing |-> SubSeq(b, 1, Len(b) - 1), ret |-> Value(b[Len(b)].val)]
\* mutant of OccRemove: Vec::swap_remove in place of Vec::remove
OccRemoveSwap(b, e) ==
    [backing |-> SwapRemove(b, e.entry_pos), ret |-> Value(b[e.entry_pos].val)]
\* mutant of OccRemove: the last pair is copied into the slot and not popped
OccRemoveCopy(b, e) ==
    [backing |-> [b EXCEPT ![e.entry_pos] = b[Len(b)]],
     ret |-> Value(b[e.entry_pos].val)]
\* OccupiedEntry::remove
OccRemove(b, e) ==
    [backing |-> VecRemove(b, e.entry_pos), ret |-> Value(b[e.entry_pos].val)]

\* mutant of VacInsert: returns the first slot's value, not the last's
VacInsertFirst(b, e, value) ==
    LET pushed == Push(b, Pair(e.key, value))
    IN  [backing |-> pushed, ret |-> Ref(1)]
\* VacantEntry::insert
VacInsert(b, e, value) ==
    LET pushed == Push(b, Pair(e.key, value))
    IN  [backing |-> pushed, ret |-> Ref(Len(pushed))]
\* VacantEntry::into_key
VacIntoKey(e) == e.key
\* VacantEntry::key
VacKey(e) == e.key

\* Entry::key
EntryKeyOf(b, e) == IF e.kind = "Occupied" THEN OccKey(b, e) ELSE VacKey(e)

\* mutant of OrInsert: an occupied slot is overwritten with the default
OrInsertOverwrite(b, e, default) ==
    IF e.kind = "Occupied"
    THEN [backing |-> [b EXCEPT ![e.entry_pos].val = default],
          ret |-> OccIntoMut(b, e)]
    ELSE VacInsert(b, e, default)
\* Entry::or_insert
OrInsert(b, e, default) ==
    IF e.kind = "Occupied"
    THEN [backing |-> b, ret |-> OccIntoMut(b, e)]
    ELSE VacInsert(b, e, default)

\* mutant of AndModify: the closure runs on its own result again
AndModifyTwice(b, e, f) ==
    IF e.kind = "Occupied"
    THEN [b EXCEPT ![OccGetMut(b, e).pos].val = f[f[b[OccGetMut(b, e).pos].val]]]
    ELSE b
\* Entry::and_modify
AndModify(b, e, f) ==
    IF e.kind = "Occupied"
    THEN [b EXCEPT ![OccGetMut(b, e).pos].val = f[b[OccGetMut(b, e).pos].val]]
    ELSE b

\* mutant of MapEq: the same pairs, in any order
MapEqUnordered(a, b) ==
    /\ Len(a) = Len(b)
    /\ \A i \in 1..Len(a) :
           \E j \in 1..Len(b) : KeyEq(a[i].key, b[j].key) /\ a[i].val = b[j].val
\* #[derive(PartialEq, Eq)] on Map: the backing Vecs compare pair by pair, in
\* order, keys by K's Eq
MapEq(a, b) ==
    /\ Len(a) = Len(b)
    /\ \A i \in 1..Len(a) : KeyEq(a[i].key, b[i].key) /\ a[i].val = b[i].val

\* Serialize for Map: one serialize_entry(k, v) per pair, in iteration order
Serialize(b) == [i \in 1..Len(b) |-> Pair(b[i].key, b[i].val)]

\* mutant of VisitEntry: the entry is inserted, displacing an earlier value
VisitEntryInsert(b, key, value) == Insert(b, key, value).backing
\* MapVisitor::visit_map, one turn of its loop: map.entry(key).or_insert(value)
VisitEntry(b, key, value) == OrInsert(b, EntryOf(b, key), value).backing

\* MapVisitor::visit_map over the entries src, from Map::with_capacity(..)
RECURSIVE VisitMap(_, _)
VisitMap(b, src) ==
    IF src = <<>> THEN b
    ELSE VisitMap(VisitEntry(b, Head(src).key, Head(src).val), Tail(src))

\* Deserialize for Map
Deserialize(src) == VisitMap(<<>>, src)

\* ------------------------------------------------------------------- Set
\* T, with Eq on id alone
Elems == Keys

\* Set::contains
SetContains(s, q) == \E i \in 1..Len(s) : q = Borrow(s[i])

\* backing.iter().position(|v| value.eq(v.borrow())) / find: first match
SetPosition(s, q) ==
    IF \E i \in 1..Len(s) : q = Borrow(s[i])
    THEN CHOOSE i \in 1..Len(s) :
             /\ q = Borrow(s[i])
             /\ \A j \in 1..(i - 1) : q # Borrow(s[j])
    ELSE 0

\* Set::get, the reference as the position found
SetGet(s, q) ==
    LET pos == SetPosition(s, q)
    IN  IF pos = 0 THEN NoneV ELSE SomeV(Ref(pos))

\* mutant of SetInsert: an equal element present is overwritten by the new one
SetInsertOverwrite(s, value) ==
    IF ~(\E i \in 1..Len(s) : KeyEq(s[i], value))
    THEN [backing |-> Push(s, value), ret |-> Value(TRUE)]
    ELSE [backing |-> [s EXCEPT ![SetPosition(s, Borrow(value))] = value],
          ret |-> Value(FALSE)]
\* Set::insert
SetInsert(s, value) ==
    IF ~(\E i \in 1..Len(s) : KeyEq(s[i], value))
    THEN [backing |-> Push(s, value), ret |-> Value(TRUE)]
    ELSE [backing |-> s, ret |-> Value(FALSE)]

\* mutant of SetReplace: the stored element stays, though it is returned
SetReplaceKeep(s, value) ==
    LET pos == SetPosition(s, Borrow(value))
    IN  IF pos # 0
        THEN [backing |-> s, ret |-> SomeV(s[pos])]
        ELSE [backing |-> Push(s, value), ret |-> NoneV]
\* Set::replace
SetReplace(s, value) ==
    LET pos == SetPosition(s, Borrow(value))
    IN  IF pos # 0
        THEN [backing |-> [s EXCEPT ![pos] = value], ret |-> SomeV(s[pos])]
        ELSE [backing |-> Push(s, value), ret |-> NoneV]

\* Set::get_or_insert_with(value, f), made holds f(value)
SetGetOrInsertWith(s, q, made) ==
    LET found == SetGet(s, q)
    IN  IF found # NoneV
        THEN [backing |-> s, ret |-> found.val, fcalls |-> 0]
        ELSE LET pushed == Push(s, made)
             IN  [backing |-> pushed, ret |-> Ref(Len(pushed)), fcalls |-> 1]

\* mutant of SetGetOrInsert: the reference is taken before the push
SetGetOrInsertStale(s, value) ==
    LET found == SetGet(s, Borrow(value))
    IN  IF found # NoneV
        THEN [backing |-> s, ret |-> found.val]
        ELSE [backing |-> Push(s, value), ret |-> Ref(Len(s))]
\* Set::get_or_insert
SetGetOrInsert(s, value) ==
    LET found == SetGet(s, Borrow(value))
    IN  IF found # NoneV
        THEN [backing |-> s, ret |-> found.val]
        ELSE LET pushed == Push(s, value)
             IN  [backing |-> pushed, ret |-> Ref(Len(pushed))]

\* Set::take
SetTake(s, q) ==
    LET pos == SetPosition(s, q)
    IN  IF pos = 0
        THEN [backing |-> s, ret |-> NoneV]
        ELSE [backing |-> SwapRemove(s, pos), ret |-> SomeV(s[pos])]

\* Set::remove
SetRemove(s, q) ==
    LET r == SetTake(s, q)
    IN  [backing |-> r.backing, ret |-> Value(r.ret # NoneV)]

\* Set::retain: Vec::retain(f), f(v) = (v.id \in keep)
RECURSIVE SetRetain(_, _)
SetRetain(s, keep) ==
    IF s = <<>> THEN <<>>
    ELSE IF Head(s).id \in keep
         THEN <<Head(s)>> \o SetRetain(Tail(s), keep)
         ELSE SetRetain(Tail(s), keep)

\* mutant of SetExtend: every item is pushed
SetExtendAll(s, items) == s \o items
\* Extend<T>::extend
RECURSIVE SetExtend(_, _)
SetExtend(s, items) ==
    IF items = <<>> THEN s
    ELSE SetExtend(SetInsert(s, Head(items)).backing, Tail(items))

\* From<Into<Vec<V>>>::from
SetFrom(values) == SetExtend(<<>>, values)

\* FromIterator::from_iter
SetFromIter(items) == SetExtend(<<>>, items)

\* #[derive(PartialEq, Eq)] on Set: the backing Vecs compare element by
\* element, in order, by T's Eq
SetEq(a, b) ==
    /\ Len(a) = Len(b)
    /\ \A i \in 1..Len(a) : KeyEq(a[i], b[i])

\* Serialize for Set: one serialize_element(item) per element, in order
SetSerialize(s) == [i \in 1..Len(s) |-> s[i]]

\* mutant of VisitElement: an equal element is replaced by the later one
VisitElementReplace(s, item) == SetReplace(s, item).backing
\* SetVisitor::visit_seq, one turn of its loop: set.get_or_insert(item)
VisitElement(s, item) == SetGetOrInsert(s, item).backing

\* SetVisitor::visit_seq over the elements src, from Set::with_capacity(..)
RECURSIVE VisitSeq(_, _)
VisitSeq(s, src) ==
    IF src = <<>> THEN s
    ELSE VisitSeq(VisitElement(s, Head(src)), Tail(src))

\* Deserialize for Set
SetDeserialize(src) == VisitSeq(<<>>, src)

\* Set::drain, run to the end or dropped
SetDrain(s) == [backing |-> <<>>, ret |-> Value(s)]

\* Set::clear
SetClear(s) == <<>>

\* ------------------------------------------------------------- iterators
\* the iterators over a map: iter(), iter_mut(), keys(), values(),
\* values_mut(), into_iter()
MapIterKinds == {"iter", "iter_mut", "keys", "values", "values_mut", "into_iter"}

\* Keys / Values / ValuesMut / Iter / IterMut ::map_item; vec::IntoIter and
\* vec::Drain yield the element itself
MapItem(kind, item) ==
    IF kind = "keys" THEN item.key
    ELSE IF kind \in {"values", "values_mut"} THEN item.val
    ELSE item

\* an iterator just made over the elements b: `rest` is the window of the
\* slice not yet yielded; items, nexts, backs and ended record what it was
\* made over, how many calls of next() and next_back() yielded, and whether
\* it has returned None
NewIter(kind, b) ==
    [kind |-> kind, rest |-> b, items |-> b, nexts |-> 0, backs |-> 0,
     ended |-> FALSE]

\* Iterator::size_hint / ExactSizeIterator::len, from the inner slice iterator
SizeHint(it) == Len(it.rest)

\* Iterator::next: self.iter.next().map(Self::map_item)
IterNextOf(it) ==
    IF it.rest = <<>>
    THEN [iter |-> [it EXCEPT !.ended = TRUE], ret |-> NoneV]
    ELSE [iter |-> [it EXCEPT !.rest = Tail(@), !.nexts = @ + 1],
          ret |-> SomeV(MapItem(it.kind, Head(it.rest)))]

\* mutant of IterNextBackOf: gives up the last element but yields the first
IterNextBackFront(it) ==
    IF it.rest = <<>>
    THEN [iter |-> [it EXCEPT !.ended = TRUE], ret |-> NoneV]
    ELSE [iter |-> [it EXCEPT !.rest = SubSeq(@, 1, Len(@) - 1), !.backs = @ + 1],
          ret |-> SomeV(MapItem(it.kind, Head(it.rest)))]
\* DoubleEndedIterator::next_back: self.iter.next_back().map(Self::map_item)
IterNextBackOf(it) ==
    IF it.rest = <<>>
    THEN [iter |-> [it EXCEPT !.ended = TRUE], ret |-> NoneV]
    ELSE [iter |-> [it EXCEPT !.rest = SubSeq(@, 1, Len(@) - 1), !.backs = @ + 1],
          ret |-> SomeV(MapItem(it.kind, it.rest[Len(it.rest)]))]

\* for x in it: everything the iterator yields, taken with next() until None
RECURSIVE Walk(_)
Walk(it) ==
    LET r == IterNextOf(it)
    IN  IF r.ret = NoneV THEN <<>> ELSE <<r.ret.val>> \o Walk(r.iter)
\* Map::keys, walked to the end
KeysOf(b) == Walk(NewIter("keys", b))

\* mutant of DrainIter: the elements stay in the Vec
DrainIterKeep(b) == [backing |-> b, iter |-> NewIter("drain", b)]
\* Map::drain / Set::drain: self.backing.drain(..); Vec::drain moves the
\* whole range out at once, the Vec's length is 0 while the Drain lives
DrainIter(b) == [backing |-> <<>>, iter |-> NewIter("drain", b)]

\* ----------------------------------------------------------- set algebra
\* &'a T yielded by a set iterator: the element at position pos of the set
\* src ("self" or "other" of the call that made the iterator)
ElemRef(src, pos, elt) == [src |-> src, pos |-> pos, val |-> elt]

\* a scan of the slice `slice` (core::slice::Iter, the positions lo..hi still
\* to come), alone (kind "iter": Set::iter) or inside Difference { iter,
\* other } / Intersection { iter, other }
Scan(kind, src, slice, against) ==
    [kind |-> kind, src |-> src, slice |-> slice, lo |-> 1, hi |-> Len(slice),
     other |-> against]

\* Set::difference
Difference(a, b) == Scan("difference", "self", a, b)
\* Set::intersection
Intersection(a, b) == Scan("intersection", "self", a, b)

\* slice::Iter::next
SliceNext(p) ==
    IF p.lo > p.hi THEN [iter |-> p, ret |-> NoneV]
    ELSE [iter |-> [p EXCEPT !.lo = @ + 1],
          ret |-> SomeV(ElemRef(p.src, p.lo, p.slice[p.lo]))]
\* mutant of SliceNextBack: the back cursor ignores the front cursor
SliceNextBackPast(p) ==
    IF p.hi < 1 THEN [iter |-> p, ret |-> NoneV]
    ELSE [iter |-> [p EXCEPT !.hi = @ - 1],
          ret |-> SomeV(ElemRef(p.src, p.hi, p.slice[p.hi]))]
\* slice::Iter::next_back
SliceNextBack(p) ==
    IF p.lo > p.hi THEN [iter |-> p, ret |-> NoneV]
    ELSE [iter |-> [p EXCEPT !.hi = @ - 1],
          ret |-> SomeV(ElemRef(p.src, p.hi, p.slice[p.hi]))]

\* mutant of DifferenceNext: the containment test is inverted
RECURSIVE DifferenceNextInverted(_)
DifferenceNextInverted(p) ==
    LET r == SliceNext(p)
    IN  IF r.ret = NoneV THEN r
        ELSE IF SetContains(p.other, Borrow(r.ret.val.val)) THEN r
        ELSE DifferenceNextInverted(r.iter)
\* Difference::next: loop { let elt = self.iter.next()?;
\*                          if !self.other.contains(elt) { return Some(elt) } }
RECURSIVE DifferenceNext(_)
DifferenceNext(p) ==
    LET r == SliceNext(p)
    IN  IF r.ret = NoneV THEN r
        ELSE IF ~SetContains(p.other, Borrow(r.ret.val.val)) THEN r
        ELSE DifferenceNext(r.iter)
\* mutant of DifferenceNextBack: takes from the front
DifferenceNextBackFront(p) == DifferenceNext(p)
\* Difference::next_back
RECURSIVE DifferenceNextBack(_)
DifferenceNextBack(p) ==
    LET r == SliceNextBack(p)
    IN  IF r.ret = NoneV THEN r
        ELSE IF ~SetContains(p.other, Borrow(r.ret.val.val)) THEN r
        ELSE DifferenceNextBack(r.iter)

\* mutant of IntersectionNext: every element of the scan is yielded
IntersectionNextAll(p) == SliceNext(p)
\* Intersection::next
RECURSIVE IntersectionNext(_)
IntersectionNext(p) ==
    LET r == SliceNext(p)
    IN  IF r.ret = NoneV THEN r
        ELSE IF SetContains(p.other, Borrow(r.ret.val.val)) THEN r
        ELSE IntersectionNext(r.iter)
\* Intersection::next_back
RECURSIVE IntersectionNextBack(_)
IntersectionNextBack(p) ==
    LET r == SliceNextBack(p)
    IN  IF r.ret = NoneV THEN r
        ELSE IF SetContains(p.other, Borrow(r.ret.val.val)) THEN r
        ELSE IntersectionNextBack(r.iter)

\* size_hint of a scan: slice::Iter gives (len, Some(len)); Difference and
\* Intersection give (0, upper)
ScanSizeHint(p) ==
    LET len == IF p.lo > p.hi THEN 0 ELSE p.hi - p.lo + 1
    IN  IF p.kind = "iter" THEN [lower |-> len, upper |-> len]
        ELSE [lower |-> 0, upper |-> len]

\* next / next_back of either half of a Chain
ScanNext(p) ==
    IF p.kind = "difference" THEN DifferenceNext(p)
    ELSE IF p.kind = "intersection" THEN IntersectionNext(p)
    ELSE SliceNext(p)
ScanNextBack(p) ==
    IF p.kind = "difference" THEN DifferenceNextBack(p)
    ELSE IF p.kind = "intersection" THEN IntersectionNextBack(p)
    ELSE SliceNextBack(p)

\* core::iter::Chain { a: Option<A>, b: Option<B> }
Chain(a, b) == [kind |-> "chain", a |-> SomeV(a), b |-> SomeV(b)]

\* Chain::next: a is taken from until it returns None and is then cleared;
\* after that b is taken from
ChainNext(c) ==
    LET ra == ScanNext(c.a.val)
    IN  IF c.a # NoneV /\ ra.ret # NoneV
        THEN [iter |-> [c EXCEPT !.a = SomeV(ra.iter)], ret |-> ra.ret]
        ELSE IF c.b = NoneV
             THEN [iter |-> [c EXCEPT !.a = NoneV], ret |-> NoneV]
             ELSE LET rb == ScanNext(c.b.val)
                  IN  [iter |-> [c EXCEPT !.a = NoneV, !.b = SomeV(rb.iter)],
                       ret |-> rb.ret]
\* Chain::next_back: b from its back until it returns None and is cleared,
\* then a from its back
ChainNextBack(c) ==
    LET rb == ScanNextBack(c.b.val)
    IN  IF c.b # NoneV /\ rb.ret # NoneV
        THEN [iter |-> [c EXCEPT !.b = SomeV(rb.iter)], ret |-> rb.ret]
        ELSE IF c.a = NoneV
             THEN [iter |-> [c EXCEPT !.b = NoneV], ret |-> NoneV]
             ELSE LET ra == ScanNextBack(c.a.val)
                  IN  [iter |-> [c EXCEPT !.b = NoneV, !.a = SomeV(ra.iter)],
                       ret |-> ra.ret]
\* Chain::size_hint: the halves still held, added up
ChainSizeHint(c) ==
    LET ha == IF c.a = NoneV THEN [lower |-> 0, upper |-> 0] ELSE ScanSizeHint(c.a.val)
        hb == IF c.b = NoneV THEN [lower |-> 0, upper |-> 0] ELSE ScanSizeHint(c.b.val)
    IN  [lower |-> ha.lower + hb.lower, upper |-> ha.upper + hb.upper]

\* mutant of SymmetricDifference: the second half is other's scan unfiltered
SymmetricDifferenceAll(a, b) ==
    Chain(Difference(a, b), Scan("iter", "other", b, a))
\* Set::symmetric_difference: self.difference(other).chain(other.difference(self))
SymmetricDifference(a, b) ==
    Chain(Difference(a, b), Scan("difference", "other", b, a))
\* mutant of Union: other's elements first
UnionOtherFirst(a, b) ==
    Chain(Scan("difference", "other", b, a), Scan("iter", "self", a, b))
\* Set::union: self.iter().chain(other.difference(self))
Union(a, b) ==
    Chain(Scan("iter", "self", a, b), Scan("difference", "other", b, a))

\* Iterator::next, DoubleEndedIterator::next_back and size_hint of
\* Difference / Intersection / SymmetricDifference / Union
SetIterNext(it) == IF it.kind = "chain" THEN ChainNext(it) ELSE ScanNext(it)
SetIterNextBack(it) == IF it.kind = "chain" THEN ChainNextBack(it) ELSE ScanNextBack(it)
SetIterSizeHint(it) ==
    IF it.kind = "chain"
    THEN [lower |-> 0, upper |-> ChainSizeHint(it).upper]
    ELSE ScanSizeHint(it)

\* everything the iterator yields, taken with next() until None
RECURSIVE Collected(_)
Collected(it) ==
    LET r == SetIterNext(it)
    IN  IF r.ret = NoneV THEN <<>> ELSE <<r.ret.val>> \o Collected(r.iter)
\* Iterator::count
Count(it) == Len(Collected(it))
\* .cloned(): the elements behind the references
Cloned(refs) == [i \in 1..Len(refs) |-> refs[i].val]

\* mutant of IsDisjoint: only self's first element is looked up
IsDisjointFirst(a, b) == a = <<>> \/ ~SetContains(b, Borrow(a[1]))
\* Set::is_disjoint
IsDisjoint(a, b) == Count(Intersection(a, b)) = 0
\* mutant of IsSubset: the length test alone
IsSubsetByLen(a, b) == Len(a) <= Len(b)
\* Set::is_subset
IsSubset(a, b) == Len(a) <= Len(b) /\ Count(Difference(a, b)) = 0
\* Set::is_superset
IsSuperset(a, b) == IsSubset(b, a)

\* &a - &b: self.difference(rhs).cloned().collect()
Sub(a, b) == SetFromIter(Cloned(Collected(Difference(a, b))))

\* ----------------------------------------------------------------- state
VARIABLES
    container,  \* which of the two peer containers the program drives
    backing,    \* Map::backing : Vec<(K, V)>
    entry,      \* the live Entry handle borrowing the map, or NoEntry
    sbacking,   \* Set::backing : Vec<T>
    op,         \* name of the last operation called
    ret,        \* what the last operation returned
    fcalls,     \* how often the last operation called its closure
    at,         \* position the last operation found or pushed at, 0 if none
    hist,       \* the insertions so far in a logged run, while nothing else was called
    cap,        \* Vec::capacity() of the container's backing, in a run that observes it
    iter,       \* the live iterator borrowing (or owning) the backing, or NoIter
    other,      \* the backing of a second Set, the `other` of the set algebra
    drops       \* how many objects of each key and each value are alive, in a
                \* run that counts them (the DROP_VECTOR of the tests)

vars == <<container, backing, entry, sbacking, op, ret, fcalls, at, hist, cap, iter,
          other, drops>>

\* drops in a run that does not count the live objects
NoDrops == [tracked |-> FALSE]
\* DROP_VECTOR zeroed: no object is alive
ZeroDrops == [tracked |-> TRUE, keys |-> [k \in Keys |-> 0], vals |-> [v \in Vals |-> 0]]
\* how often x occurs in s
Occurs(s, x) == Cardinality({i \in 1..Len(s) : s[i] = x})
\* the keys and the values of a Vec<(K, V)>, in order
KeysIn(b) == [i \in 1..Len(b) |-> b[i].key]
ValsIn(b) == [i \in 1..Len(b) |-> b[i].val]
\* Droppable::new (and Droppable::clone): each object made counts one up
Made(d, ks, vs) ==
    IF ~d.tracked THEN d
    ELSE [d EXCEPT !.keys = [k \in Keys |-> @[k] + Occurs(ks, k)],
                   !.vals = [v \in Vals |-> @[v] + Occurs(vs, v)]]
\* Drop for Droppable: each object released counts one down
Released(d, ks, vs) ==
    IF ~d.tracked THEN d
    ELSE [d EXCEPT !.keys = [k \in Keys |-> @[k] - Occurs(ks, k)],
                   !.vals = [v \in Vals |-> @[v] - Occurs(vs, v)]]
\* hist once an operation other than insert has run, or the log is full
Untracked == [only |-> FALSE, calls |-> <<>>]

\* Seq(S) up to length n
RECURSIVE SeqsUpTo(_, _)
SeqsUpTo(S, n) ==
    IF n = 0 THEN {<<>>}
    ELSE LET shorter == SeqsUpTo(S, n - 1)
         IN  shorter \cup {Append(t, x) : t \in {u \in shorter : Len(u) = n - 1}, x \in S}

\* the inputs of extend / from / collect, by their greatest length
PairSeqs == [n \in 0..MaxExtend |-> SeqsUpTo(Pairs, n)]
ElemSeqs == [n \in 0..MaxExtend |-> SeqsUpTo(Elems, n)]

\* the insertions logged after `items` more of them
Logged(h, items) ==
    IF h.only /\ Len(h.calls) + Len(items) <= MaxHist
    THEN [only |-> TRUE, calls |-> h.calls \o items]
    ELSE Untracked

NoHist == [only |-> TRUE, calls |-> <<>>]

\* the container as constructed: Map::new / Map::with_capacity / Map::default,
\* Map::from(values), collect() (FromIterator), and the same for Set;
\* h is the insertion log to start from
Constructed(h) ==
    /\ container \in {"Map", "Set"}
    /\ other = <<>>
    /\ op \in {"new", "from", "collect"}
    /\ entry = NoEntry
    /\ ret = Unit
    /\ fcalls = 0
    /\ at = 0
    /\ \/ /\ op = "new"
          /\ backing = <<>>
          /\ sbacking = <<>>
          /\ hist = h
       \/ /\ op # "new" /\ container = "Map"
          /\ \E values \in PairSeqs[MaxExtend] :
                 /\ backing = (IF op = "from" THEN From(values) ELSE FromIter(values))
                 /\ hist = Logged(h, values)
          /\ sbacking = <<>>
       \/ /\ op # "new" /\ container = "Set"
          /\ \E values \in ElemSeqs[MaxExtend] :
                 sbacking = (IF op = "from" THEN SetFrom(values) ELSE SetFromIter(values))
          /\ backing = <<>>
          /\ hist = h

Init == Constructed(Untracked) /\ cap = NoCap /\ iter = NoIter /\ drops = NoDrops

\* how many items an extend may bring: at most MaxExtend, and no more than
\* would fit below MaxLen if every one of them were pushed
Room(b) == IF MaxLen - Len(b) < MaxExtend
           THEN (IF MaxLen > Len(b) THEN MaxLen - Len(b) ELSE 0)
           ELSE MaxExtend

\* a map operation needs &self / &mut self: no Entry handle and no iterator
\* may be live
MapFree == container = "Map" /\ entry = NoEntry /\ iter = NoIter

Returns(name, r, n, p) == op' = name /\ ret' = r /\ fcalls' = n /\ at' = p

\* what the caller still holds of the last call's return: the old value
\* insert handed back, the value remove handed back, the pair the owning
\* iterator yielded; the caller lets go of it before the next call
KeptKeys ==
    IF op = "next" /\ ret.kind = "Some" /\ iter # NoIter /\ iter.kind = "into_iter"
    THEN <<ret.val.key>> ELSE <<>>
KeptVals ==
    IF ret.kind # "Some" THEN <<>>
    ELSE IF op \in {"insert", "remove"} THEN <<ret.val>>
    ELSE IF op = "next" /\ iter # NoIter /\ iter.kind = "into_iter" THEN <<ret.val.val>>
    ELSE <<>>
\* the counts once the caller has let go of what the last call returned
Settled == Released(drops, KeptKeys, KeptVals)
\* the call is made with the objects (mk, mv) newly made for it or by it, and
\* releases the objects (rk, rv)
Counts(mk, mv, rk, rv) ==
    drops' = IF drops.tracked THEN Released(Made(Settled, mk, mv), rk, rv) ELSE drops

MapInsert(key, value) ==
    /\ MapFree
    /\ ContainsKey(backing, Borrow(key)) \/ Len(backing) < MaxLen
    /\ backing' = Insert(backing, key, value).backing
    /\ Returns("insert", Insert(backing, key, value).ret, 0,
               IF ContainsKey(backing, Borrow(key))
               THEN Position(backing, Borrow(key)) ELSE Len(backing) + 1)
    /\ hist' = Logged(hist, <<Pair(key, value)>>)
    /\ cap' = Pushed(cap, Len(backing'))
    \* a key that is already present is dropped with the call's frame
    /\ Counts(<<key>>, <<value>>,
              IF ContainsKey(backing, Borrow(key)) THEN <<key>> ELSE <<>>, <<>>)
    /\ UNCHANGED <<container, entry, sbacking, iter, other>>

MapGet(q) ==
    /\ MapFree
    /\ Returns("get", Get(backing, q), 0, Position(backing, q))
    /\ hist' = Untracked
    /\ UNCHANGED <<container, backing, entry, sbacking, cap, iter, other, drops>>

\* map[&q]; a panic unwinds out of the call and leaves the map as it was
MapIndex(q) ==
    /\ MapFree
    /\ Returns("index", Index(backing, q), 0, Position(backing, q))
    /\ hist' = Untracked
    /\ UNCHANGED <<container, backing, entry, sbacking, cap, iter, other, drops>>

MapRemove(q) ==
    /\ MapFree
    /\ backing' = Remove(backing, q).backing
    /\ Returns("remove", Remove(backing, q).ret, 0, Position(backing, q))
    /\ hist' = Untracked
    \* .map(|(_, v)| v) drops the key of the pair taken out
    /\ Counts(<<>>, <<>>,
              IF ContainsKey(backing, q) THEN <<backing[Position(backing, q)].key>>
              ELSE <<>>, <<>>)
    /\ UNCHANGED <<container, entry, sbacking, cap, iter, other>>

MapRemoveEntry(q) ==
    /\ MapFree
    /\ backing' = RemoveEntry(backing, q).backing
    /\ Returns("remove_entry", RemoveEntry(backing, q).ret, 0, Position(backing, q))
    /\ hist' = Untracked
    /\ UNCHANGED <<container, entry, sbacking, cap, iter, other, drops>>

MapClear ==
    /\ MapFree
    /\ backing' = Clear(backing)
    /\ Returns("clear", Unit, 0, 0)
    /\ hist' = Untracked
    /\ UNCHANGED <<container, entry, sbacking, cap, iter, other, drops>>

\* drain() with the Drain iterator run to its end or dropped; what it yields
\* is Drain(backing).ret and is not kept in the state
MapDrain ==
    /\ MapFree
    /\ backing' = Drain(backing).backing
    /\ Returns("drain", Unit, 0, 0)
    /\ hist' = Untracked
    /\ UNCHANGED <<container, entry, sbacking, cap, iter, other, drops>>

MapRetain(keep, g) ==
    /\ MapFree
    /\ backing' = Retain(backing, keep, g)
    /\ Returns("retain", Unit, Len(backing), 0)
    /\ hist' = Untracked
    /\ UNCHANGED <<container, entry, sbacking, cap, iter, other, drops>>

MapExtend(items) ==
    /\ MapFree
    /\ Len(backing) + Len(items) <= MaxLen
    /\ backing' = Extend(backing, items)
    /\ Returns("extend", Unit, 0, 0)
    /\ hist' = Logged(hist, items)
    /\ cap' = Pushed(cap, Len(backing'))
    /\ UNCHANGED <<container, entry, sbacking, iter, other, drops>>

MapEntry(key) ==
    /\ MapFree
    /\ entry' = EntryOf(backing, key)
    /\ Returns("entry", Unit, 0, Position(backing, Borrow(key)))
    /\ hist' = Untracked
    /\ UNCHANGED <<container, backing, sbacking, cap, iter, other, drops>>

\* the handle goes out of scope unused
EntryDrop ==
    /\ container = "Map" /\ entry # NoEntry
    /\ entry' = NoEntry
    /\ Returns("drop", Unit, 0, 0)
    /\ UNCHANGED <<container, backing, sbacking, hist, cap, iter, other, drops>>

EntryKey ==
    /\ container = "Map" /\ entry # NoEntry
    /\ Returns("Entry::key", Value(EntryKeyOf(backing, entry)), 0, 0)
    /\ UNCHANGED <<container, backing, entry, sbacking, hist, cap, iter, other, drops>>

\* or_insert(default); or_insert_with(f) with f() = default; or_default()
EntryOrInsert(name, default) ==
    /\ container = "Map" /\ entry # NoEntry
    /\ entry.kind = "Occupied" \/ Len(backing) < MaxLen
    /\ backing' = OrInsert(backing, entry, default).backing
    /\ entry' = NoEntry
    /\ Returns(name, OrInsert(backing, entry, default).ret,
               IF name = "or_insert_with" /\ entry.kind = "Vacant" THEN 1 ELSE 0,
               IF entry.kind = "Occupied" THEN entry.entry_pos ELSE Len(backing) + 1)
    /\ cap' = Pushed(cap, Len(backing'))
    /\ UNCHANGED <<container, sbacking, hist, iter, other, drops>>

EntryAndModify(f) ==
    /\ container = "Map" /\ entry # NoEntry
    /\ backing' = AndModify(backing, entry, f)
    /\ Returns("and_modify", Unit, IF entry.kind = "Occupied" THEN 1 ELSE 0,
               IF entry.kind = "Occupied" THEN entry.entry_pos ELSE 0)
    /\ UNCHANGED <<container, entry, sbacking, hist, cap, iter, other, drops>>

IsOccupied == container = "Map" /\ entry.kind = "Occupied"
IsVacant == container = "Map" /\ entry.kind = "Vacant"

OccupiedGet ==
    /\ IsOccupied
    /\ Returns("OccupiedEntry::get", Value(OccGet(backing, entry)), 0, entry.entry_pos)
    /\ UNCHANGED <<container, backing, entry, sbacking, hist, cap, iter, other, drops>>

OccupiedGetMut ==
    /\ IsOccupied
    /\ Returns("OccupiedEntry::get_mut", OccGetMut(backing, entry), 0, entry.entry_pos)
    /\ UNCHANGED <<container, backing, entry, sbacking, hist, cap, iter, other, drops>>

OccupiedKey ==
    /\ IsOccupied
    /\ Returns("OccupiedEntry::key", Value(OccKey(backing, entry)), 0, entry.entry_pos)
    /\ UNCHANGED <<container, backing, entry, sbacking, hist, cap, iter, other, drops>>

OccupiedInsert(value) ==
    /\ IsOccupied
    /\ backing' = OccInsert(backing, entry, value).backing
    /\ Returns("OccupiedEntry::insert", OccInsert(backing, entry, value).ret, 0,
               entry.entry_pos)
    /\ UNCHANGED <<container, entry, sbacking, hist, cap, iter, other, drops>>

OccupiedIntoMut ==
    /\ IsOccupied
    /\ entry' = NoEntry
    /\ Returns("OccupiedEntry::into_mut", OccIntoMut(backing, entry), 0, entry.entry_pos)
    /\ UNCHANGED <<container, backing, sbacking, hist, cap, iter, other, drops>>

OccupiedRemove ==
    /\ IsOccupied
    /\ backing' = OccRemove(backing, entry).backing
    /\ entry' = NoEntry
    /\ Returns("OccupiedEntry::remove", OccRemove(backing, entry).ret, 0,
               entry.entry_pos)
    /\ UNCHANGED <<container, sbacking, hist, cap, iter, other, drops>>

VacantInsert(value) ==
    /\ IsVacant
    /\ Len(backing) < MaxLen
    /\ backing' = VacInsert(backing, entry, value).backing
    /\ entry' = NoEntry
    /\ Returns("VacantEntry::insert", VacInsert(backing, entry, value).ret, 0,
               Len(backing) + 1)
    /\ cap' = Pushed(cap, Len(backing'))
    /\ UNCHANGED <<container, sbacking, hist, iter, other, drops>>

VacantIntoKey ==
    /\ IsVacant
    /\ entry' = NoEntry
    /\ Returns("VacantEntry::into_key", Value(VacIntoKey(entry)), 0, 0)
    /\ UNCHANGED <<container, backing, sbacking, hist, cap, iter, other, drops>>

VacantKey ==
    /\ IsVacant
    /\ Returns("VacantEntry::key", Value(VacKey(entry)), 0, 0)
    /\ UNCHANGED <<container, backing, entry, sbacking, hist, cap, iter, other, drops>>

MapNext ==
    \/ \E key \in Keys, value \in Vals : MapInsert(key, value)
    \/ \E q \in KeyIds : MapGet(q)
    \/ \E q \in KeyIds : MapIndex(q)
    \/ \E q \in KeyIds : MapRemove(q)
    \/ \E q \in KeyIds : MapRemoveEntry(q)
    \/ MapClear
    \/ MapDrain
    \/ \E keep \in SUBSET KeyIds, g \in ValFns : MapRetain(keep, g)
    \/ \E items \in PairSeqs[Room(backing)] : MapExtend(items)
    \/ \E key \in Keys : MapEntry(key)
    \/ EntryDrop
    \/ EntryKey
    \/ \E default \in Vals : EntryOrInsert("or_insert", default)
    \/ \E default \in Vals : EntryOrInsert("or_insert_with", default)
    \/ EntryOrInsert("or_default", FALSE)
    \/ \E f \in ValFns : EntryAndModify(f)
    \/ OccupiedGet
    \/ OccupiedGetMut
    \/ OccupiedKey
    \/ \E value \in Vals : OccupiedInsert(value)
    \/ OccupiedIntoMut
    \/ OccupiedRemove
    \/ \E value \in Vals : VacantInsert(value)
    \/ VacantIntoKey
    \/ VacantKey

SetFree == container = "Set" /\ iter = NoIter

SetInsertOp(value) ==
    /\ SetFree
    /\ SetContains(sbacking, Borrow(value)) \/ Len(sbacking) < MaxLen
    /\ sbacking' = SetInsert(sbacking, value).backing
    /\ Returns("insert", SetInsert(sbacking, value).ret, 0,
               IF SetContains(sbacking, Borrow(value))
               THEN SetPosition(sbacking, Borrow(value)) ELSE Len(sbacking) + 1)
    /\ cap' = Pushed(cap, Len(sbacking'))
    /\ UNCHANGED <<container, backing, entry, hist, iter, other, drops>>

SetReplaceOp(value) ==
    /\ SetFree
    /\ SetContains(sbacking, Borrow(value)) \/ Len(sbacking) < MaxLen
    /\ sbacking' = SetReplace(sbacking, value).backing
    /\ Returns("replace", SetReplace(sbacking, value).ret, 0,
               IF SetContains(sbacking, Borrow(value))
               THEN SetPosition(sbacking, Borrow(value)) ELSE Len(sbacking) + 1)
    /\ cap' = Pushed(cap, Len(sbacking'))
    /\ UNCHANGED <<container, backing, entry, hist, iter, other, drops>>

SetGetOrInsertOp(value) ==
    /\ SetFree
    /\ SetContains(sbacking, Borrow(value)) \/ Len(sbacking) < MaxLen
    /\ sbacking' = SetGetOrInsert(sbacking, value).backing
    /\ Returns("get_or_insert", SetGetOrInsert(sbacking, value).ret, 0,
               IF SetContains(sbacking, Borrow(value))
               THEN SetPosition(sbacking, Borrow(value)) ELSE Len(sbacking) + 1)
    /\ cap' = Pushed(cap, Len(sbacking'))
    /\ UNCHANGED <<container, backing, entry, hist, iter, other, drops>>

\* get_or_insert_with(q, f) for a closure f with f(q) = made
SetGetOrInsertWithOp(q, made) ==
    /\ SetFree
    /\ SetContains(sbacking, q) \/ Len(sbacking) < MaxLen
    /\ sbacking' = SetGetOrInsertWith(sbacking, q, made).backing
    /\ Returns("get_or_insert_with", SetGetOrInsertWith(sbacking, q, made).ret,
               SetGetOrInsertWith(sbacking, q, made).fcalls,
               IF SetContains(sbacking, q)
               THEN SetPosition(sbacking, q) ELSE Len(sbacking) + 1)
    /\ cap' = Pushed(cap, Len(sbacking'))
    /\ UNCHANGED <<container, backing, entry, hist, iter, other, drops>>

SetTakeOp(q) ==
    /\ SetFree
    /\ sbacking' = SetTake(sbacking, q).backing
    /\ Returns("take", SetTake(sbacking, q).ret, 0, SetPosition(sbacking, q))
    /\ UNCHANGED <<container, backing, entry, hist, cap, iter, other, drops>>

SetRemoveOp(q) ==
    /\ SetFree
    /\ sbacking' = SetRemove(sbacking, q).backing
    /\ Returns("remove", SetRemove(sbacking, q).ret, 0, SetPosition(sbacking, q))
    /\ UNCHANGED <<container, backing, entry, hist, cap, iter, other, drops>>

SetRetainOp(keep) ==
    /\ SetFree
    /\ sbacking' = SetRetain(sbacking, keep)
    /\ Returns("retain", Unit, Len(sbacking), 0)
    /\ UNCHANGED <<container, backing, entry, hist, cap, iter, other, drops>>

SetExtendOp(items) ==
    /\ SetFree
    /\ Len(sbacking) + Len(items) <= MaxLen
    /\ sbacking' = SetExtend(sbacking, items)
    /\ Returns("extend", Unit, 0, 0)
    /\ hist' = Logged(hist, items)
    /\ cap' = Pushed(cap, Len(sbacking'))
    /\ UNCHANGED <<container, backing, entry, iter, other, drops>>

\* as MapDrain; it yields SetDrain(sbacking).ret
SetDrainOp ==
    /\ SetFree
    /\ sbacking' = SetDrain(sbacking).backing
    /\ Returns("drain", Unit, 0, 0)
    /\ UNCHANGED <<container, backing, entry, hist, cap, iter, other, drops>>

SetClearOp ==
    /\ SetFree
    /\ sbacking' = SetClear(sbacking)
    /\ Returns("clear", Unit, 0, 0)
    /\ UNCHANGED <<container, backing, entry, hist, cap, iter, other, drops>>

SetNext ==
    \/ \E value \in Elems : SetInsertOp(value)
    \/ \E value \in Elems : SetReplaceOp(value)
    \/ \E value \in Elems : SetGetOrInsertOp(value)
    \/ \E q \in KeyIds, made \in Elems : SetGetOrInsertWithOp(q, made)
    \/ \E q \in KeyIds : SetTakeOp(q)
    \/ \E q \in KeyIds : SetRemoveOp(q)
    \/ \E keep \in SUBSET KeyIds : SetRetainOp(keep)
    \/ \E items \in ElemSeqs[Room(sbacking)] : SetExtendOp(items)
    \/ SetDrainOp
    \/ SetClearOp

Next == MapNext \/ SetNext

Spec == Init /\ [][Next]_vars

\* a map that is constructed and then only inserted into, the inserted pairs logged
InitInserts ==
    Constructed(NoHist) /\ container = "Map" /\ cap = NoCap /\ iter = NoIter /\ drops = NoDrops
NextInserts == \E key \in Keys, value \in Vals : MapInsert(key, value)
SpecInserts == InitInserts /\ [][NextInserts]_vars

\* a map that is bulk-constructed and then only extended, the pairs logged
\* and the capacity observed
InitBulk ==
    /\ Constructed(NoHist) /\ container = "Map" /\ iter = NoIter
    /\ drops = NoDrops
    /\ \/ op = "new" /\ cap = VecNew
       \/ op = "from" /\ cap = FromCapacity(hist.calls)
       \/ /\ op = "collect"
          /\ \E min \in 0..Len(hist.calls) : cap = FromIterCapacity(hist.calls, min)
\* how many more pairs a logged run may extend by
LogRoom(b, h) ==
    IF MaxHist - Len(h.calls) < Room(b) THEN MaxHist - Len(h.calls) ELSE Room(b)
NextBulk ==
    /\ hist.only
    /\ \E items \in PairSeqs[LogRoom(backing, hist)] : MapExtend(items)
SpecBulk == InitBulk /\ [][NextBulk]_vars

\* a container being decoded: the visitor starts from with_capacity(..) and
\* takes one entry / element of the source per step, the source logged
InitDecode ==
    /\ container \in {"Map", "Set"}
    /\ drops = NoDrops
    /\ op = "deserialize"
    /\ backing = <<>> /\ sbacking = <<>>
    /\ entry = NoEntry /\ iter = NoIter
    /\ ret = Unit /\ fcalls = 0 /\ at = 0
    /\ hist = NoHist
    /\ cap = NoCap
    /\ other = <<>>

\* access.next_entry() gave (key, value)
VisitMapEntry(key, value) ==
    /\ MapFree
    /\ hist.only /\ Len(hist.calls) < MaxHist
    /\ ContainsKey(backing, Borrow(key)) \/ Len(backing) < MaxLen
    /\ backing' = VisitEntry(backing, key, value)
    /\ Returns("visit_map", Unit, 0, 0)
    /\ hist' = Logged(hist, <<Pair(key, value)>>)
    /\ cap' = Pushed(cap, Len(backing'))
    /\ UNCHANGED <<container, entry, sbacking, iter, other, drops>>

\* seq.next_element() gave item
VisitSeqElement(item) ==
    /\ SetFree
    /\ hist.only /\ Len(hist.calls) < MaxHist
    /\ SetContains(sbacking, Borrow(item)) \/ Len(sbacking) < MaxLen
    /\ sbacking' = VisitElement(sbacking, item)
    /\ Returns("visit_seq", Unit, 0, 0)
    /\ hist' = Logged(hist, <<item>>)
    /\ cap' = Pushed(cap, Len(sbacking'))
    /\ UNCHANGED <<container, backing, entry, iter, other, drops>>

NextDecode ==
    \/ \E key \in Keys, value \in Vals : VisitMapEntry(key, value)
    \/ \E item \in Elems : VisitSeqElement(item)
SpecDecode == InitDecode /\ [][NextDecode]_vars

\* iter() / iter_mut() / keys() / values() / values_mut(): the iterator
\* borrows the map
MapIterOpen(kind) ==
    /\ MapFree
    /\ iter' = NewIter(kind, backing)
    /\ Returns(kind, Unit, 0, 0)
    /\ UNCHANGED <<container, backing, entry, sbacking, hist, cap, other, drops>>

\* into_iter() on the map by value: the backing Vec moves into the iterator
MapIntoIter ==
    /\ MapFree
    /\ iter' = NewIter("into_iter", backing)
    /\ container' = "Moved"
    /\ backing' = <<>>
    /\ Returns("into_iter", Unit, 0, 0)
    /\ Counts(<<>>, <<>>, <<>>, <<>>)
    /\ UNCHANGED <<entry, sbacking, hist, cap, other>>

MapDrainOpen ==
    /\ MapFree
    /\ iter' = DrainIter(backing).iter
    /\ backing' = DrainIter(backing).backing
    /\ Returns("drain", Unit, 0, 0)
    /\ UNCHANGED <<container, entry, sbacking, hist, cap, other, drops>>

SetDrainOpen ==
    /\ SetFree
    /\ iter' = DrainIter(sbacking).iter
    /\ sbacking' = DrainIter(sbacking).backing
    /\ Returns("drain", Unit, 0, 0)
    /\ UNCHANGED <<container, backing, entry, hist, cap, other, drops>>

IterNext ==
    /\ iter # NoIter
    /\ iter' = IterNextOf(iter).iter
    /\ Returns("next", IterNextOf(iter).ret, 0, 0)
    /\ Counts(<<>>, <<>>, <<>>, <<>>)
    /\ UNCHANGED <<container, backing, entry, sbacking, hist, cap, other>>

IterNextBack ==
    /\ iter # NoIter
    /\ iter' = IterNextBackOf(iter).iter
    /\ Returns("next_back", IterNextBackOf(iter).ret, 0, 0)
    /\ UNCHANGED <<container, backing, entry, sbacking, hist, cap, other, drops>>

\* the iterator is dropped, at any point; a Drain or an owning iterator drops
\* the elements it has not yielded, recorded as what the drop returns
IterDrop ==
    /\ iter # NoIter
    /\ iter' = NoIter
    /\ Returns(IF iter.kind = "drain" THEN "Drain::drop" ELSE "drop",
               IF iter.kind \in {"drain", "into_iter"} THEN Value(iter.rest) ELSE Unit,
               0, iter.nexts + iter.backs)
    /\ Counts(<<>>, <<>>,
              IF drops.tracked /\ iter.kind = "into_iter" THEN KeysIn(iter.rest) ELSE <<>>,
              IF drops.tracked /\ iter.kind = "into_iter" THEN ValsIn(iter.rest) ELSE <<>>)
    /\ UNCHANGED <<container, backing, entry, sbacking, hist, cap, other>>

\* a container that is built by construction and inserts and then iterated
\* or drained
NextIter ==
    \/ \E key \in Keys, value \in Vals : MapInsert(key, value)
    \/ \E value \in Elems : SetInsertOp(value)
    \/ \E kind \in MapIterKinds \ {"into_iter"} : MapIterOpen(kind)
    \/ MapIntoIter
    \/ MapDrainOpen
    \/ SetDrainOpen
    \/ IterNext
    \/ IterNextBack
    \/ IterDrop
SpecIter == Init /\ [][NextIter]_vars

\* ------------------------------------------------- set algebra, as queries
\* a set holding exactly `values`, built with get_or_insert_with: an element
\* equal to a stored one enters as the value made for an absent probe
RECURSIVE Built(_)
Built(values) ==
    IF values = <<>> THEN <<>>
    ELSE LET s == Built(SubSeq(values, 1, Len(values) - 1))
             x == values[Len(values)]
             q == IF SetContains(s, Borrow(x))
                  THEN CHOOSE k \in KeyIds : ~SetContains(s, k)
                  ELSE Borrow(x)
         IN  SetGetOrInsertWith(s, q, x).backing

\* the sets built from up to MaxExtend values
BuiltSets == {Built(values) : values \in ElemSeqs[MaxExtend]}

\* two such sets, self and other
InitAlgebra ==
    /\ container = "Set"
    /\ drops = NoDrops
    /\ sbacking \in BuiltSets
    /\ other \in BuiltSets
    /\ backing = <<>>
    /\ entry = NoEntry
    /\ op = "get_or_insert_with"
    /\ ret = Unit
    /\ fcalls = 0
    /\ at = 0
    /\ hist = Untracked
    /\ cap = NoCap
    /\ iter = NoIter

AlgebraOps ==
    {"difference", "intersection", "symmetric_difference", "union",
     "sub",
     "is_subset", "is_superset", "is_disjoint", "eq"}

\* the size_hint before each call of next(), and after the one returning None
RECURSIVE Hints(_)
Hints(it) ==
    LET r == SetIterNext(it)
    IN  <<SetIterSizeHint(it)>>
        \o (IF r.ret = NoneV THEN <<SetIterSizeHint(r.iter)>> ELSE Hints(r.iter))

\* a query on (self, other): neither set changes, so one query per pair of
\* operands reaches every result
Query(name, r) ==
    /\ SetFree
    /\ op \notin AlgebraOps
    /\ Returns(name, Value(r), 0, 0)
    /\ UNCHANGED <<container, backing, entry, sbacking, hist, cap, iter, other, drops>>

\* for x in a.difference(&b) { .. }, with size_hint read before every next()
Walked(it) == [yields |-> Collected(it), hints |-> Hints(it)]

SetDifference == Query("difference", Walked(Difference(sbacking, other)))
SetIntersection == Query("intersection", Walked(Intersection(sbacking, other)))
SetSymmetricDifference ==
    Query("symmetric_difference", Walked(SymmetricDifference(sbacking, other)))
SetUnion == Query("union", Walked(Union(sbacking, other)))
SetSub == Query("sub", Sub(sbacking, other))
SetIsSubset == Query("is_subset", IsSubset(sbacking, other))
SetIsSuperset == Query("is_superset", IsSuperset(sbacking, other))
SetIsDisjoint == Query("is_disjoint", IsDisjoint(sbacking, other))
SetEqOp == Query("eq", SetEq(sbacking, other))

NextAlgebra ==
    \/ SetDifference
    \/ SetIntersection
    \/ SetSymmetricDifference
    \/ SetUnion
    \/ SetSub
    \/ SetIsSubset
    \/ SetIsSuperset
    \/ SetIsDisjoint
    \/ SetEqOp

SpecAlgebra == InitAlgebra /\ [][NextAlgebra]_vars

\* ------------------------------------------- set algebra, step by step
SetIterKinds == {"difference", "intersection", "symmetric_difference", "union"}

\* a.difference(&b), a.intersection(&b), a.symmetric_difference(&b), a.union(&b)
SetIterOf(kind, a, b) ==
    IF kind = "difference" THEN Difference(a, b)
    ELSE IF kind = "intersection" THEN Intersection(a, b)
    ELSE IF kind = "symmetric_difference" THEN SymmetricDifference(a, b)
    ELSE Union(a, b)

\* the sets built from up to MaxExtend of the values tagged FALSE
PlainSets == {Built(values) : values \in SeqsUpTo({x \in Elems : ~x.tag}, MaxExtend)}

InitSetIter ==
    /\ container = "Set"
    /\ drops = NoDrops
    /\ sbacking \in PlainSets
    /\ other \in PlainSets
    /\ backing = <<>>
    /\ entry = NoEntry
    /\ op = "get_or_insert_with"
    /\ ret = Unit
    /\ fcalls = 0
    /\ at = 0
    /\ hist = Untracked
    /\ cap = NoCap
    /\ iter = NoIter

\* let it = self.<kind>(&other): the iterator borrows both sets; with it are
\* kept the stored elements yielded so far, their number, and whether None
\* has been returned
SetAlgebraOpen(kind) ==
    /\ SetFree
    /\ iter' = [kind |-> kind, it |-> SetIterOf(kind, sbacking, other),
                seen |-> {}, yields |-> 0, ended |-> FALSE]
    /\ Returns(kind, Unit, 0, 0)
    /\ UNCHANGED <<container, backing, entry, sbacking, hist, cap, other, drops>>

Stepped(r) ==
    [iter EXCEPT !.it = r.iter,
                 !.seen = IF r.ret = NoneV THEN @
                          ELSE @ \cup {[src |-> r.ret.val.src, pos |-> r.ret.val.pos]},
                 !.yields = IF r.ret = NoneV THEN @ ELSE @ + 1,
                 !.ended = @ \/ r.ret = NoneV]

\* it.next()
SetAlgebraNext ==
    /\ container = "Set"
    /\ iter.kind \in SetIterKinds
    /\ iter' = Stepped(SetIterNext(iter.it))
    /\ Returns("next", SetIterNext(iter.it).ret, 0, 0)
    /\ UNCHANGED <<container, backing, entry, sbacking, hist, cap, other, drops>>

\* it.next_back()
SetAlgebraNextBack ==
    /\ container = "Set"
    /\ iter.kind \in SetIterKinds
    /\ iter' = Stepped(SetIterNextBack(iter.it))
    /\ Returns("next_back", SetIterNextBack(iter.it).ret, 0, 0)
    /\ UNCHANGED <<container, backing, entry, sbacking, hist, cap, other, drops>>

\* drop(it)
SetAlgebraDrop ==
    /\ container = "Set"
    /\ iter.kind \in SetIterKinds
    /\ iter' = NoIter
    /\ Returns("drop", Unit, 0, 0)
    /\ UNCHANGED <<container, backing, entry, sbacking, hist, cap, other, drops>>

NextSetIter ==
    \/ \E kind \in SetIterKinds : SetAlgebraOpen(kind)
    \/ SetAlgebraNext
    \/ SetAlgebraNextBack
    \/ SetAlgebraDrop

SpecSetIter == InitSetIter /\ [][NextSetIter]_vars

\* ------------------------------------------------------------- capacity
\* a container made by new() or with_capacity(n), then inserted into, removed
\* from, cleared, reserved for and shrunk, its capacity observed
InitCapacity ==
    /\ container \in {"Map", "Set"}
    /\ drops = NoDrops
    /\ \/ op = "new" /\ cap = VecNew
       \/ op = "with_capacity" /\ \E n \in 0..MaxExtend : cap = WithCapacity(n)
    /\ backing = <<>>
    /\ sbacking = <<>>
    /\ other = <<>>
    /\ entry = NoEntry
    /\ ret = Unit
    /\ fcalls = 0
    /\ at = 0
    /\ hist = Untracked
    /\ iter = NoIter

\* self.backing.len()
Held == IF container = "Map" THEN Len(backing) ELSE Len(sbacking)
\* a request for `additional` more elements: small, usize::MAX / 8, usize::MAX
Additionals == (0..MaxExtend) \cup {UsizeMax \div 8, UsizeMax}

\* Map::reserve / Set::reserve
ReserveOp(additional) ==
    /\ MapFree \/ SetFree
    /\ cap' = Reserve(cap, Held, additional).cap
    /\ container' = IF Reserve(cap, Held, additional).ret.kind = "Abort"
                    THEN "Aborted" ELSE container
    /\ Returns("reserve", Reserve(cap, Held, additional).ret, 0, 0)
    /\ UNCHANGED <<backing, entry, sbacking, hist, iter, other, drops>>

\* Map::try_reserve / Set::try_reserve
TryReserveOp(additional) ==
    /\ MapFree \/ SetFree
    /\ cap' = TryReserve(cap, Held, additional).cap
    /\ Returns("try_reserve", TryReserve(cap, Held, additional).ret, 0, 0)
    /\ UNCHANGED <<container, backing, entry, sbacking, hist, iter, other, drops>>

\* Map::shrink_to_fit / Set::shrink_to_fit
ShrinkToFitOp ==
    /\ MapFree \/ SetFree
    /\ cap' = ShrinkToFit(cap, Held)
    /\ Returns("shrink_to_fit", Unit, 0, 0)
    /\ UNCHANGED <<container, backing, entry, sbacking, hist, iter, other, drops>>

NextCapacity ==
    \/ \E key \in PlainKeys : MapInsert(key, TRUE)
    \/ \E key \in PlainKeys : MapRemove(Borrow(key))
    \/ MapClear
    \/ \E value \in PlainKeys : SetInsertOp(value)
    \/ \E value \in PlainKeys : SetRemoveOp(Borrow(value))
    \/ SetClearOp
    \/ \E additional \in Additionals : ReserveOp(additional)
    \/ \E additional \in Additionals : TryReserveOp(additional)
    \/ ShrinkToFitOp

SpecCapacity == InitCapacity /\ [][NextCapacity]_vars

\* ---------------------------------------------------------------- entries
\* a map worked on directly and through entry handles
InitEntry == Init /\ container = "Map"
NextEntry ==
    \/ \E key \in Keys, value \in Vals : MapInsert(key, value)
    \/ \E q \in KeyIds : MapGet(q)
    \/ \E q \in KeyIds : MapRemove(q)
    \/ MapClear
    \/ \E key \in Keys : MapEntry(key)
    \/ EntryDrop
    \/ EntryKey
    \/ \E default \in Vals : EntryOrInsert("or_insert", default)
    \/ \E f \in ValFns : EntryAndModify(f)
    \/ OccupiedGet
    \/ OccupiedGetMut
    \/ OccupiedKey
    \/ \E value \in Vals : OccupiedInsert(value)
    \/ OccupiedIntoMut
    \/ OccupiedRemove
    \/ \E value \in Vals : VacantInsert(value)
    \/ VacantIntoKey
    \/ VacantKey
SpecEntry == InitEntry /\ [][NextEntry]_vars

\* ------------------------------------------------------------- set, bulk
\* a set that is bulk-constructed and then only extended, the values logged
InitSetBulk ==
    /\ container = "Set"
    /\ drops = NoDrops
    /\ op \in {"new", "from", "collect"}
    /\ \E values \in ElemSeqs[MaxExtend] :
           /\ op = "new" => values = <<>>
           /\ sbacking = (IF op = "from" THEN SetFrom(values) ELSE SetFromIter(values))
           /\ hist = Logged(NoHist, values)
    /\ backing = <<>>
    /\ other = <<>>
    /\ entry = NoEntry
    /\ ret = Unit
    /\ fcalls = 0
    /\ at = 0
    /\ cap = NoCap
    /\ iter = NoIter
NextSetBulk ==
    /\ hist.only
    /\ \E items \in ElemSeqs[LogRoom(sbacking, hist)] : SetExtendOp(items)
SpecSetBulk == InitSetBulk /\ [][NextSetBulk]_vars

\* ---------------------------------------------------- mutable iteration
\* for x in &mut set: self.backing.iter_mut(), a slice::IterMut over the
\* elements
SetIterMutOpen ==
    /\ SetFree
    /\ iter' = NewIter("set_iter_mut", sbacking)
    /\ Returns("iter_mut", Unit, 0, 0)
    /\ UNCHANGED <<container, backing, entry, sbacking, hist, cap, other, drops>>

\* it.next() on an IterMut yields (&mut K, &mut V) of the next pair, and the
\* caller assigns through both: *k = key; *v = value
IterMutAssign(key, value) ==
    /\ container = "Map"
    /\ iter.kind = "iter_mut"
    /\ iter.rest # <<>>
    /\ iter' = IterNextOf(iter).iter
    /\ backing' = [backing EXCEPT ![iter.nexts + 1] = Pair(key, value)]
    /\ Returns("next", SomeV(Ref(iter.nexts + 1)), 0, iter.nexts + 1)
    /\ UNCHANGED <<container, entry, sbacking, hist, cap, other, drops>>

\* it.next() on the set's IterMut yields &mut T, and the caller assigns
\* through it: *x = value
SetIterMutAssign(value) ==
    /\ container = "Set"
    /\ iter.kind = "set_iter_mut"
    /\ iter.rest # <<>>
    /\ iter' = IterNextOf(iter).iter
    /\ sbacking' = [sbacking EXCEPT ![iter.nexts + 1] = value]
    /\ Returns("next", SomeV(Ref(iter.nexts + 1)), 0, iter.nexts + 1)
    /\ UNCHANGED <<container, backing, entry, hist, cap, other, drops>>

\* a new container, inserted into and walked with iter_mut, over the keys
\* tagged FALSE
InitIterMut == Init /\ op = "new"
NextIterMut ==
    \/ \E key \in PlainKeys, value \in Vals : MapInsert(key, value)
    \/ \E value \in PlainKeys : SetInsertOp(value)
    \/ MapIterOpen("iter_mut")
    \/ SetIterMutOpen
    \/ \E key \in PlainKeys, value \in Vals : IterMutAssign(key, value)
    \/ \E value \in PlainKeys : SetIterMutAssign(value)
    \/ IterNext
    \/ IterDrop
SpecIterMut == InitIterMut /\ [][NextIterMut]_vars

\* ------------------------------------------------------------- equality
\* the maps built by up to MaxExtend inserts of pairs with keys tagged FALSE
BuiltMaps ==
    {FromIter(items) : items \in SeqsUpTo([key : PlainKeys, val : Vals], MaxExtend)}

\* two maps, or two sets, self and other
InitEq ==
    /\ container \in {"Map", "Set"}
    /\ drops = NoDrops
    /\ IF container = "Map"
       THEN backing \in BuiltMaps /\ other \in BuiltMaps /\ sbacking = <<>>
       ELSE sbacking \in BuiltSets /\ other \in BuiltSets /\ backing = <<>>
    /\ entry = NoEntry
    /\ op = "insert"
    /\ ret = Unit
    /\ fcalls = 0
    /\ at = 0
    /\ hist = Untracked
    /\ cap = NoCap
    /\ iter = NoIter

\* self == other, on two maps
MapEqOp ==
    /\ MapFree
    /\ op \notin AlgebraOps
    /\ Returns("eq", Value(MapEq(backing, other)), 0, 0)
    /\ UNCHANGED <<container, backing, entry, sbacking, hist, cap, iter, other, drops>>

NextEq == MapEqOp \/ SetEqOp
SpecEq == InitEq /\ [][NextEq]_vars

\* ------------------------------------------------- ownership of the pairs
\* map.clone(): derive(Clone) clones the backing Vec, each key and each
\* value by its own Clone; the clone is kept in `other`
MapClone ==
    /\ MapFree
    /\ other = <<>>
    /\ other' = backing
    /\ Returns("clone", Unit, 0, 0)
    /\ hist' = Untracked
    /\ Counts(KeysIn(backing), ValsIn(backing), <<>>, <<>>)
    /\ UNCHANGED <<container, backing, entry, sbacking, cap, iter>>

\* drop(clone): the clone's Vec drops its pairs
CloneDrop ==
    /\ other # <<>>
    /\ other' = <<>>
    /\ Returns("drop(clone)", Unit, 0, 0)
    /\ hist' = Untracked
    /\ Counts(<<>>, <<>>, KeysIn(other), ValsIn(other))
    /\ UNCHANGED <<container, backing, entry, sbacking, cap, iter>>

\* the map goes out of scope: its Vec drops the pairs it holds
MapDrop ==
    /\ MapFree
    /\ container' = "Dropped"
    /\ backing' = <<>>
    /\ Returns("drop(map)", Value(backing), 0, 0)
    /\ hist' = Untracked
    /\ Counts(<<>>, <<>>, KeysIn(backing), ValsIn(backing))
    /\ UNCHANGED <<entry, sbacking, cap, iter, other>>

\* the key objects of a counted run: two ids, two objects of each
DropKeys == {k \in Keys : k.id # 3}
\* a map of Droppable keys and values, from Map::new on, with DROP_VECTOR
\* zeroed: inserts, removes, a clone, the owning iterator, and the drops
InitDrops ==
    /\ Constructed(Untracked) /\ container = "Map" /\ op = "new"
    /\ cap = NoCap /\ iter = NoIter
    /\ drops = ZeroDrops
NextDrops ==
    \/ \E key \in DropKeys, value \in Vals : MapInsert(key, value)
    \/ \E q \in KeyIds : MapRemove(q)
    \/ MapClone
    \/ CloneDrop
    \/ MapIntoIter
    \/ IterNext
    \/ IterDrop
    \/ MapDrop
SpecDrops == InitDrops /\ [][NextDrops]_vars

\* ================================================================ claims

\* C1: in every reachable state no two pairs of the map's backing sequence
\* have equal keys.
MapKeysUnique ==
    \A i, j \in 1..Len(backing) :
        i # j => ~KeyEq(backing[i].key, backing[j].key)
\* an insert on a present key of a full map: it replaced, and did not push
MapKeysUniqueWitness ==
    /\ container = "Map" /\ op = "insert"
    /\ ret.kind = "Some" /\ Len(backing) = 3 /\ at = 2

\* C2: in every reachable state no two elements of the set's backing
\* sequence are equal.
SetElemsUnique ==
    \A i, j \in 1..Len(sbacking) :
        i # j => ~KeyEq(sbacking[i], sbacking[j])

\* value of the last call in `calls` whose key has the view q
LastInserted(calls, q) ==
    calls[CHOOSE i \in 1..Len(calls) :
              /\ Borrow(calls[i].key) = q
              /\ \A j \in (i + 1)..Len(calls) : Borrow(calls[j].key) # q].val

\* C3: after any sequence of inserts into an empty map, len() is the number
\* of distinct keys inserted and get(k) is the value of the last insert of k.
InsertsLastWins ==
    (container = "Map" /\ hist.only) =>
        /\ MapLen(backing) =
               Cardinality({Borrow(hist.calls[i].key) : i \in 1..Len(hist.calls)})
        /\ \A i \in 1..Len(hist.calls) :
               Get(backing, Borrow(hist.calls[i].key)) =
                   SomeV(LastInserted(hist.calls, Borrow(hist.calls[i].key)))
\* a full log in which a key was inserted twice with different values
InsertsLastWinsWitness ==
    /\ container = "Map" /\ hist.only /\ op = "insert"
    /\ Len(hist.calls) = MaxHist
    /\ Len(backing) >= 2
    /\ \E i, j \in 1..Len(hist.calls) :
           /\ i < j
           /\ KeyEq(hist.calls[i].key, hist.calls[j].key)
           /\ hist.calls[i].val # hist.calls[j].val

\* C4: after insert(k, v) get(k) is Some(v); after remove(k) get(k) is None
\* and contains_key(k) is false; get(j) of every other key j is as before.
InsertRemoveGet ==
    [][ /\ \A key \in Keys, value \in Vals :
               (op' = "insert" /\ MapInsert(key, value)) =>
                   /\ Get(backing', Borrow(key)) = SomeV(value)
                   /\ \A j \in KeyIds \ {Borrow(key)} :
                          Get(backing', j) = Get(backing, j)
        /\ \A q \in KeyIds :
               (op' = "remove" /\ MapRemove(q)) =>
                   /\ Get(backing', q) = NoneV
                   /\ ~ContainsKey(backing', q)
                   /\ \A j \in KeyIds \ {q} :
                          Get(backing', j) = Get(backing, j) ]_vars
\* a remove that found its key first of three, two other keys remaining
InsertRemoveGetWitness ==
    /\ container = "Map" /\ op = "remove"
    /\ ret.kind = "Some" /\ at = 1 /\ Len(backing) = 2

\* C5: insert(k, v) on a key present at p replaces the value at p and returns
\* Some(old value), leaving p's stored key, the length and all other pairs;
\* on an absent key it appends (k, v), leaves all pairs in place, returns None.
InsertInPlaceOrAppend ==
    [][ \A key \in Keys, value \in Vals :
            (op' = "insert" /\ MapInsert(key, value)) =>
                IF \E p \in 1..Len(backing) : KeyEq(backing[p].key, key)
                THEN \A p \in 1..Len(backing) :
                         KeyEq(backing[p].key, key) =>
                             /\ Len(backing') = Len(backing)
                             /\ backing'[p].key = backing[p].key
                             /\ backing'[p].val = value
                             /\ \A i \in 1..Len(backing) :
                                    i # p => backing'[i] = backing[i]
                             /\ ret' = SomeV(backing[p].val)
                ELSE /\ Len(backing') = Len(backing) + 1
                     /\ backing'[Len(backing')] = Pair(key, value)
                     /\ \A i \in 1..Len(backing) : backing'[i] = backing[i]
                     /\ ret' = NoneV ]_vars
\* an insert that replaced the value of the first of three pairs
InsertInPlaceOrAppendWitness ==
    /\ container = "Map" /\ op = "insert"
    /\ ret = SomeV(TRUE) /\ at = 1 /\ Len(backing) = 3
    /\ backing[1].val = FALSE

\* new is old with position p swap-removed
SwapRemoved(old, new, p) ==
    /\ Len(new) = Len(old) - 1
    /\ \A i \in 1..Len(new) : new[i] = (IF i = p THEN old[Len(old)] ELSE old[i])

\* C6: Map::remove / remove_entry and Set::take / remove with the match at p
\* return the removed element and leave the sequence one shorter, position p
\* holding the former last element and every other position unchanged;
\* without a match they return None / false and change nothing.
SwapRemoval ==
    [][ /\ \A q \in KeyIds :
               (op' = "remove_entry" /\ MapRemoveEntry(q)) =>
                   IF \E p \in 1..Len(backing) : Borrow(backing[p].key) = q
                   THEN \E p \in 1..Len(backing) :
                            /\ Borrow(backing[p].key) = q
                            /\ SwapRemoved(backing, backing', p)
                            /\ ret' = SomeV(backing[p])
                   ELSE backing' = backing /\ ret' = NoneV
        /\ \A q \in KeyIds :
               (op' = "remove" /\ MapRemove(q)) =>
                   IF \E p \in 1..Len(backing) : Borrow(backing[p].key) = q
                   THEN \E p \in 1..Len(backing) :
                            /\ Borrow(backing[p].key) = q
                            /\ SwapRemoved(backing, backing', p)
                            /\ ret' = SomeV(backing[p].val)
                   ELSE backing' = backing /\ ret' = NoneV
        /\ \A q \in KeyIds :
               (op' = "take" /\ SetTakeOp(q)) =>
                   IF \E p \in 1..Len(sbacking) : Borrow(sbacking[p]) = q
                   THEN \E p \in 1..Len(sbacking) :
                            /\ Borrow(sbacking[p]) = q
                            /\ SwapRemoved(sbacking, sbacking', p)
                            /\ ret' = SomeV(sbacking[p])
                   ELSE sbacking' = sbacking /\ ret' = NoneV
        /\ \A q \in KeyIds :
               (op' = "remove" /\ SetRemoveOp(q)) =>
                   IF \E p \in 1..Len(sbacking) : Borrow(sbacking[p]) = q
                   THEN \E p \in 1..Len(sbacking) :
                            /\ Borrow(sbacking[p]) = q
                            /\ SwapRemoved(sbacking, sbacking', p)
                            /\ ret' = Value(TRUE)
                   ELSE sbacking' = sbacking /\ ret' = Value(FALSE) ]_vars
\* a remove_entry that found its key first of three: the last pair moved up
SwapRemovalWitness ==
    /\ container = "Map" /\ op = "remove_entry"
    /\ ret.kind = "Some" /\ at = 1 /\ Len(backing) = 2

\* C7: entry(k) is Occupied exactly when contains_key(k), else Vacant holding
\* k; obtaining the entry, reading its key and dropping it leave the backing
\* sequence unchanged.
EntryLookup ==
    [][ /\ \A key \in Keys :
               (op' = "entry" /\ MapEntry(key)) =>
                   /\ (entry'.kind = "Occupied") <=> ContainsKey(backing, Borrow(key))
                   /\ (entry'.kind = "Vacant") <=> ~ContainsKey(backing, Borrow(key))
                   /\ entry'.kind = "Vacant" => entry'.key = key
                   /\ backing' = backing
        /\ (EntryKey \/ EntryDrop) => backing' = backing ]_vars
\* a Vacant entry on a non-empty map whose key has been read
EntryLookupWitness ==
    /\ container = "Map" /\ entry.kind = "Vacant"
    /\ op = "Entry::key" /\ Len(backing) >= 1

\* C8: or_insert / or_insert_with / or_default on a Vacant entry append
\* (k, v) and return access to v; on an Occupied entry they return access to
\* the existing value and change nothing; so entry(k).or_insert(v1) then
\* entry(k).or_insert(v2) on an absent k leave get(k) = v1 and len() + 1.
OrInsertProtocol ==
    /\ [](\A key \in Keys, again \in Keys, v1 \in Vals, v2 \in Vals :
              (/\ container = "Map" /\ entry = NoEntry
               /\ ~ContainsKey(backing, Borrow(key))
               /\ KeyEq(key, again)
               /\ Len(backing) < MaxLen) =>
                  LET b1 == OrInsert(backing, EntryOf(backing, key), v1).backing
                      b2 == OrInsert(b1, EntryOf(b1, again), v2).backing
                  IN  Get(b2, Borrow(key)) = SomeV(v1) /\ Len(b2) = Len(backing) + 1)
    /\ [][ \A name \in {"or_insert", "or_insert_with", "or_default"}, default \in Vals :
               (op' = name /\ EntryOrInsert(name, default)) =>
                   IF entry.kind = "Vacant"
                   THEN /\ Len(backing') = Len(backing) + 1
                        /\ \A i \in 1..Len(backing) : backing'[i] = backing[i]
                        /\ ret'.kind = "Ref"
                        /\ backing'[ret'.pos] = Pair(entry.key, default)
                   ELSE /\ backing' = backing
                        /\ ret' = Ref(entry.entry_pos) ]_vars
\* an or_insert_with that found its key occupied in a map of two or more
OrInsertProtocolWitness ==
    /\ container = "Map" /\ op = "or_insert_with"
    /\ fcalls = 0 /\ entry = NoEntry /\ Len(backing) >= 2

\* C9: VacantEntry::insert(v) consumes the handle, appends (key, v) as the
\* new last pair, grows len() by one, leaves every older pair in place, and
\* returns the reference to the value of that last pair.
VacantInsertAppends ==
    [][ \A value \in Vals :
            (op' = "VacantEntry::insert" /\ VacantInsert(value)) =>
                /\ entry' = NoEntry
                /\ Len(backing') = Len(backing) + 1
                /\ backing'[Len(backing')] = Pair(entry.key, value)
                /\ \A i \in 1..Len(backing) : backing'[i] = backing[i]
                /\ ret' = Ref(Len(backing')) ]_vars
\* a VacantEntry::insert that made the map's third pair
VacantInsertAppendsWitness ==
    /\ container = "Map" /\ op = "VacantEntry::insert"
    /\ entry = NoEntry /\ Len(backing) = 3 /\ ret = Ref(3)

\* C10: OccupiedEntry::insert(v) returns the previous value and get_mut()
\* gives the current value's slot, the handle staying Occupied on the same key
\* and len() unchanged; remove() consumes the handle, returns the slot's
\* value, shortens the map by one, and get(key) is None afterwards.
OccupiedProtocol ==
    [][ /\ \A value \in Vals :
               (op' = "OccupiedEntry::insert" /\ OccupiedInsert(value)) =>
                   /\ ret' = Value(backing[entry.entry_pos].val)
                   /\ backing'[entry.entry_pos].val = value
                   /\ entry' = entry
                   /\ backing'[entry.entry_pos].key = backing[entry.entry_pos].key
                   /\ Len(backing') = Len(backing)
        /\ OccupiedGetMut =>
               /\ ret' = Ref(entry.entry_pos)
               /\ entry' = entry
               /\ backing' = backing
        /\ OccupiedRemove =>
               /\ entry' = NoEntry
               /\ ret' = Value(backing[entry.entry_pos].val)
               /\ Len(backing') = Len(backing) - 1
               /\ Get(backing', Borrow(backing[entry.entry_pos].key)) = NoneV ]_vars
\* an OccupiedEntry::remove of the first of three pairs
OccupiedProtocolWitness ==
    /\ container = "Map" /\ op = "OccupiedEntry::remove"
    /\ entry = NoEntry /\ at = 1 /\ Len(backing) = 2

\* C11: for a present key map[&k] returns the value get(k) returns; for an
\* absent key get(k) returns None without failing while map[&k] panics with
\* "no entry found for key"; neither call changes the map.
LookupDuality ==
    [][ /\ \A q \in KeyIds :
               (op' = "index" /\ MapIndex(q)) =>
                   /\ backing' = backing
                   /\ IF ContainsKey(backing, q)
                      THEN /\ Get(backing, q).kind = "Some"
                           /\ ret' = Value(Get(backing, q).val)
                      ELSE /\ Get(backing, q) = NoneV
                           /\ ret' = Panic("no entry found for key")
        /\ \A q \in KeyIds :
               (op' = "get" /\ MapGet(q)) =>
                   /\ backing' = backing
                   /\ ret'.kind # "Panic"
                   /\ ret' = NoneV <=> ~ContainsKey(backing, q) ]_vars
\* an index by a key absent from a map of two pairs
LookupDualityWitness ==
    /\ container = "Map" /\ op = "index"
    /\ ret.kind = "Panic" /\ at = 0 /\ Len(backing) = 2

\* index in `calls` of the first pair whose key has the view q
FirstIndex(calls, q) ==
    CHOOSE i \in 1..Len(calls) :
        /\ Borrow(calls[i].key) = q
        /\ \A j \in 1..(i - 1) : Borrow(calls[j].key) # q

\* C12: a map built by from / collect / extend from a sequence of pairs has
\* one entry per distinct key, get(k) is the value of the last pair with key
\* k, and the entries are in the order of each key's first occurrence.
BulkLastWins ==
    (container = "Map" /\ hist.only) =>
        /\ MapLen(backing) =
               Cardinality({Borrow(hist.calls[i].key) : i \in 1..Len(hist.calls)})
        /\ \A i \in 1..Len(hist.calls) :
               Get(backing, Borrow(hist.calls[i].key)) =
                   SomeV(LastInserted(hist.calls, Borrow(hist.calls[i].key)))
        /\ \A i \in 1..Len(backing) :
               ContainsKey(hist.calls, Borrow(backing[i].key))
        /\ \A i, j \in 1..Len(backing) :
               i < j => FirstIndex(hist.calls, Borrow(backing[i].key)) <
                        FirstIndex(hist.calls, Borrow(backing[j].key))
\* the pairs (a,1), (b,2), (a,3): a first, with the value of its last pair
BulkLastWinsWitness ==
    /\ container = "Map" /\ hist.only /\ op = "extend"
    /\ Len(hist.calls) = 3 /\ Len(backing) = 2
    /\ KeyEq(hist.calls[1].key, hist.calls[3].key)
    /\ ~KeyEq(hist.calls[1].key, hist.calls[2].key)
    /\ hist.calls[1].val # hist.calls[3].val
    /\ backing[1].val = hist.calls[3].val

\* C13: after from / collect capacity() equals len(), the number of distinct
\* keys, also when the source sequence had duplicate keys and was longer.
BulkCapacityFits ==
    (container = "Map" /\ op \in {"from", "collect"}) =>
        /\ cap.tracked
        /\ Capacity(cap) = MapLen(backing)
\* collect() of two pairs with one key: capacity 1, not 2
BulkCapacityFitsWitness ==
    /\ container = "Map" /\ op = "collect" /\ hist.only
    /\ Len(hist.calls) = 2 /\ Len(backing) = 1 /\ Capacity(cap) = 1

\* value of the first pair in `calls` whose key has the view q
FirstInserted(calls, q) == calls[FirstIndex(calls, q)].val

\* the first element of src equal to item
FirstEqual(src, item) ==
    src[CHOOSE i \in 1..Len(src) :
            /\ KeyEq(src[i], item)
            /\ \A j \in 1..(i - 1) : ~KeyEq(src[j], item)]

\* the decoded container keeps, per key / per class of equal elements, the
\* first occurrence in the source
DecodeKeepsFirst ==
    /\ (container = "Map" /\ op = "visit_map") =>
           /\ backing = Deserialize(hist.calls)
           /\ MapLen(backing) =
                  Cardinality({Borrow(hist.calls[i].key) : i \in 1..Len(hist.calls)})
           /\ \A i \in 1..Len(hist.calls) :
                  Get(backing, Borrow(hist.calls[i].key)) =
                      SomeV(FirstInserted(hist.calls, Borrow(hist.calls[i].key)))
    /\ (container = "Set" /\ op = "visit_seq") =>
           /\ sbacking = SetDeserialize(hist.calls)
           /\ Len(sbacking) =
                  Cardinality({Borrow(hist.calls[i]) : i \in 1..Len(hist.calls)})
           /\ \A i \in 1..Len(hist.calls) :
                  /\ SetContains(sbacking, Borrow(hist.calls[i]))
                  /\ sbacking[SetPosition(sbacking, Borrow(hist.calls[i]))] =
                         FirstEqual(hist.calls, hist.calls[i])

\* C14: decoding keeps the first occurrence of a key (map) and the first of
\* equal elements (set); the decoded map differs from the map bulk-constructed
\* from the same pairs whenever some key's first and last values differ.
DecodeFirstWins ==
    /\ DecodeKeepsFirst
    /\ (container = "Map" /\ op = "visit_map") =>
           ((\E i \in 1..Len(hist.calls) :
                 FirstInserted(hist.calls, Borrow(hist.calls[i].key)) #
                     LastInserted(hist.calls, Borrow(hist.calls[i].key)))
                <=> ~MapEq(backing, From(hist.calls)))
\* C14 as stated: the decoded map differs from the bulk-constructed one for
\* every source with a duplicated key and differing values.
DecodeFirstWinsAsStated ==
    /\ DecodeKeepsFirst
    /\ (container = "Map" /\ op = "visit_map") =>
           ((\E i, j \in 1..Len(hist.calls) :
                 /\ i < j
                 /\ KeyEq(hist.calls[i].key, hist.calls[j].key)
                 /\ hist.calls[i].val # hist.calls[j].val)
                => ~MapEq(backing, From(hist.calls)))
\* the source (a,1), (b,2), (a,3) decoded: a keeps 1, from() gives it 3
DecodeFirstWinsWitness ==
    /\ container = "Map" /\ op = "visit_map"
    /\ Len(hist.calls) = 3 /\ Len(backing) = 2
    /\ KeyEq(hist.calls[1].key, hist.calls[3].key)
    /\ ~KeyEq(hist.calls[1].key, hist.calls[2].key)
    /\ hist.calls[1].val # hist.calls[3].val
    /\ backing[1].val = hist.calls[1].val
    /\ ~MapEq(backing, From(hist.calls))

\* C15: every reachable map or set, serialized in iteration order and decoded
\* back, gives a container equal (==) to the original.
RoundTrip ==
    /\ container = "Map" => MapEq(Deserialize(Serialize(backing)), backing)
    /\ container = "Set" => SetEq(SetDeserialize(SetSerialize(sbacking)), sbacking)

\* the j-th smallest member of the set S of positions
Nth(S, j) == CHOOSE i \in S : Cardinality({k \in S : k <= i}) = j

\* what retain leaves of the map b: the pairs pred accepted, in their order,
\* each with the value pred left in it
MapSurvivors(b, keep, g) ==
    LET kept == {i \in 1..Len(b) : Borrow(b[i].key) \in keep}
    IN  [j \in 1..Cardinality(kept) |->
             Pair(b[Nth(kept, j)].key, g[b[Nth(kept, j)].val])]
\* what retain leaves of the set s
SetSurvivors(s, keep) ==
    LET kept == {i \in 1..Len(s) : Borrow(s[i]) \in keep}
    IN  [j \in 1..Cardinality(kept) |-> s[Nth(kept, j)]]

\* C16: retain(pred) calls pred once per element present, keeps exactly the
\* elements pred accepted, each with the value pred left in it, removes the
\* others, and leaves the survivors in their original relative order.
RetainKeepsInOrder ==
    /\ [](MapFree => \A keep \in SUBSET KeyIds, g \in ValFns :
                         Retain(backing, keep, g) = MapSurvivors(backing, keep, g))
    /\ [](SetFree => \A keep \in SUBSET KeyIds :
                         SetRetain(sbacking, keep) = SetSurvivors(sbacking, keep))
    /\ [][ /\ (op' = "retain" /\ container = "Map") =>
                   /\ fcalls' = Len(backing)
                   /\ \E keep \in SUBSET KeyIds, g \in ValFns :
                          backing' = MapSurvivors(backing, keep, g)
           /\ (op' = "retain" /\ container = "Set") =>
                   /\ fcalls' = Len(sbacking)
                   /\ \E keep \in SUBSET KeyIds :
                          sbacking' = SetSurvivors(sbacking, keep) ]_vars
\* a retain that visited three pairs and removed one of them
RetainKeepsInOrderWitness ==
    /\ container = "Map" /\ op = "retain"
    /\ fcalls = 3 /\ Len(backing) = 2

\* C17: drain() yields every element of the container once, in iteration
\* order; when the Drain is dropped, after any number of its elements were
\* taken, the container is empty, and it takes inserts again.
DrainEmpties ==
    /\ [][ /\ (op' = "drain" /\ container = "Map") => iter'.items = backing
           /\ (op' = "drain" /\ container = "Set") => iter'.items = sbacking
           /\ (iter.kind = "drain" /\ op' = "next") =>
                  IF iter.nexts + iter.backs < Len(iter.items)
                  THEN /\ ret' = SomeV(iter.items[iter.nexts + 1])
                       /\ iter'.nexts = iter.nexts + 1
                  ELSE ret' = NoneV
           /\ op' = "Drain::drop" =>
                  /\ iter' = NoIter
                  /\ Len(backing') = 0 /\ Len(sbacking') = 0
                  /\ Len(ret'.val) = Len(iter.items) - iter.nexts - iter.backs ]_vars
    /\ [](op = "Drain::drop" =>
              /\ container = "Map" =>
                     /\ MapFree /\ MapLen(backing) = 0
                     /\ \A key \in Keys, value \in Vals :
                            /\ ENABLED MapInsert(key, value)
                            /\ Insert(backing, key, value).backing = <<Pair(key, value)>>
              /\ container = "Set" =>
                     /\ SetFree /\ Len(sbacking) = 0
                     /\ \A value \in Elems :
                            /\ ENABLED SetInsertOp(value)
                            /\ SetInsert(sbacking, value).backing = <<value>>)
\* a Drain over three pairs dropped after it yielded one of them
DrainEmptiesWitness ==
    /\ container = "Map" /\ op = "Drain::drop"
    /\ at = 1 /\ Len(ret.val) = 2 /\ backing = <<>>

\* C18: a map iterator over n elements that has yielded i times from next()
\* and j times from next_back() reports n - i - j remaining; next() yields
\* the element i + 1 from the front, next_back() the element j + 1 from the
\* back, none twice; once it has returned None it returns None ever after.
IterDoubleEnded ==
    /\ []((iter # NoIter /\ iter.kind \in MapIterKinds) =>
              /\ iter.nexts + iter.backs <= Len(iter.items)
              /\ SizeHint(iter) = Len(iter.items) - iter.nexts - iter.backs)
    /\ [][ /\ (op' \in MapIterKinds) => iter'.items = backing
           /\ (iter.kind \in MapIterKinds /\ op' = "next") =>
                  IF ~iter.ended /\ iter.nexts + iter.backs < Len(iter.items)
                  THEN /\ ret' = SomeV(MapItem(iter.kind, iter.items[iter.nexts + 1]))
                       /\ iter'.nexts = iter.nexts + 1 /\ iter'.backs = iter.backs
                  ELSE ret' = NoneV /\ iter'.ended
           /\ (iter.kind \in MapIterKinds /\ op' = "next_back") =>
                  IF ~iter.ended /\ iter.nexts + iter.backs < Len(iter.items)
                  THEN /\ ret' = SomeV(MapItem(iter.kind,
                                               iter.items[Len(iter.items) - iter.backs]))
                       /\ iter'.backs = iter.backs + 1 /\ iter'.nexts = iter.nexts
                  ELSE ret' = NoneV /\ iter'.ended ]_vars
\* keys() over three pairs after one next() and two next_back()
IterDoubleEndedWitness ==
    /\ iter # NoIter /\ iter.kind = "keys" /\ op = "next_back"
    /\ Len(iter.items) = 3 /\ iter.nexts = 1 /\ iter.backs = 2
    /\ ret = SomeV(iter.items[2].key) /\ SizeHint(iter) = 0

\* C19: Set::insert(x) with no element equal to x present appends x as the
\* last element, grows len() by one and returns true; with an equal element
\* present it returns false and leaves the backing sequence as it was.
SetInsertKeepsFirst ==
    [][ (op' = "insert" /\ container = "Set") =>
            \A value \in Elems :
                SetInsertOp(value) =>
                    IF \E i \in 1..Len(sbacking) : KeyEq(sbacking[i], value)
                    THEN ret' = Value(FALSE) /\ sbacking' = sbacking
                    ELSE /\ ret' = Value(TRUE)
                         /\ Len(sbacking') = Len(sbacking) + 1
                         /\ sbacking'[Len(sbacking')] = value
                         /\ \A i \in 1..Len(sbacking) : sbacking'[i] = sbacking[i] ]_vars
\* an insert refused by the second of three elements
SetInsertKeepsFirstWitness ==
    /\ container = "Set" /\ op = "insert"
    /\ ret = Value(FALSE) /\ at = 2 /\ Len(sbacking) = 3

\* C20: Set::replace(x) with an equivalent element at some position p stores
\* x at p, returns Some(the displaced element) and leaves len() and every
\* other position; with none present it appends x and returns None.
SetReplaceInPlace ==
    [][ (op' = "replace" /\ container = "Set") =>
            \A value \in Elems :
                SetReplaceOp(value) =>
                    IF \E p \in 1..Len(sbacking) : KeyEq(sbacking[p], value)
                    THEN \E p \in 1..Len(sbacking) :
                             /\ KeyEq(sbacking[p], value)
                             /\ sbacking'[p] = value
                             /\ ret' = SomeV(sbacking[p])
                             /\ Len(sbacking') = Len(sbacking)
                             /\ \A i \in 1..Len(sbacking) :
                                    i # p => sbacking'[i] = sbacking[i]
                    ELSE /\ ret' = NoneV
                         /\ Len(sbacking') = Len(sbacking) + 1
                         /\ sbacking'[Len(sbacking')] = value
                         /\ \A i \in 1..Len(sbacking) : sbacking'[i] = sbacking[i] ]_vars
\* a replace that displaced the second of three elements, which differed
\* from the new one in the field equality ignores
SetReplaceInPlaceWitness ==
    /\ container = "Set" /\ op = "replace"
    /\ ret.kind = "Some" /\ at = 2 /\ Len(sbacking) = 3
    /\ ret.val.tag # sbacking[2].tag

\* C21: get_or_insert(x) / get_or_insert_with(q, f) with a matching element
\* present return the reference to it, leave the set and never call f;
\* otherwise f is called once (the _with form), the new value is pushed as
\* the last element and the reference returned designates that last element.
GetOrInsertProtocol ==
    [][ /\ (op' = "get_or_insert" /\ container = "Set") =>
               \A value \in Elems :
                   SetGetOrInsertOp(value) =>
                       IF \E p \in 1..Len(sbacking) : Borrow(sbacking[p]) = Borrow(value)
                       THEN /\ sbacking' = sbacking
                            /\ ret'.kind = "Ref"
                            /\ Borrow(sbacking[ret'.pos]) = Borrow(value)
                       ELSE /\ Len(sbacking') = Len(sbacking) + 1
                            /\ \A i \in 1..Len(sbacking) : sbacking'[i] = sbacking[i]
                            /\ sbacking'[Len(sbacking')] = value
                            /\ ret' = Ref(Len(sbacking'))
        /\ (op' = "get_or_insert_with" /\ container = "Set") =>
               \A q \in KeyIds, made \in Elems :
                   SetGetOrInsertWithOp(q, made) =>
                       IF \E p \in 1..Len(sbacking) : Borrow(sbacking[p]) = q
                       THEN /\ sbacking' = sbacking
                            /\ fcalls' = 0
                            /\ ret'.kind = "Ref"
                            /\ Borrow(sbacking[ret'.pos]) = q
                       ELSE /\ fcalls' = 1
                            /\ Len(sbacking') = Len(sbacking) + 1
                            /\ \A i \in 1..Len(sbacking) : sbacking'[i] = sbacking[i]
                            /\ sbacking'[Len(sbacking')] = made
                            /\ ret' = Ref(Len(sbacking')) ]_vars
\* a get_or_insert_with that missed, called f and pushed the third element
GetOrInsertProtocolWitness ==
    /\ container = "Set" /\ op = "get_or_insert_with"
    /\ fcalls = 1 /\ Len(sbacking) = 3 /\ ret = Ref(3)


\* the elements of a for which b.contains is `present`, as references into
\* `src`, in a's backing order
RECURSIVE Sieved(_, _, _, _)
Sieved(src, a, b, present) ==
    IF a = <<>> THEN <<>>
    ELSE LET n == Len(a)
             front == Sieved(src, SubSeq(a, 1, n - 1), b, present)
         IN  IF SetContains(b, Borrow(a[n])) = present
             THEN Append(front, ElemRef(src, n, a[n]))
             ELSE front

\* the size hints of a scan of `len` elements that yields `yields`: before
\* the scan (0, Some(len)); after a yield (0, Some(what lies behind it));
\* after None (0, Some(0)), the scan having reached the end
ScanHints(len, yields) ==
    [i \in 1..(Len(yields) + 2) |->
        [lower |-> 0,
         upper |-> IF i = 1 THEN len
                   ELSE IF i = Len(yields) + 2 THEN 0
                   ELSE len - yields[i - 1].pos]]

\* C22: A.difference(B) yields, in A's backing order, exactly the elements of A for which B.contains is false, each once; its size_hint is always (0, Some(r)), r the number of A's elements not yet scanned; &A - &B is the Set collected from that iterator, and {2,3} - {1,2} == {3}.
DifferenceSieves ==
    /\ op = "difference" =>
          /\ ret.val.yields = Sieved("self", sbacking, other, FALSE)
          /\ \A i, j \in 1..Len(ret.val.yields) :
                 ret.val.yields[i].pos = ret.val.yields[j].pos => i = j
          /\ ret.val.hints = ScanHints(Len(sbacking), ret.val.yields)
    /\ op = "sub" =>
          /\ ret.val = SetFromIter(Cloned(Sieved("self", sbacking, other, FALSE)))
          /\ \A x \in Elems :
                 SetContains(ret.val, Borrow(x))
                     <=> SetContains(sbacking, Borrow(x)) /\ ~SetContains(other, Borrow(x))
          /\ ( /\ Len(sbacking) = 2 /\ Len(other) = 2
                /\ <<Borrow(sbacking[1]), Borrow(sbacking[2])>> = <<2, 3>>
                /\ <<Borrow(other[1]), Borrow(other[2])>> = <<1, 2>> )
             => Len(ret.val) = 1 /\ Borrow(ret.val[1]) = 3
DifferenceSievesWitness ==
    /\ op = "difference"
    /\ Len(sbacking) = 2
    /\ SetContains(other, Borrow(sbacking[2]))
    /\ ret.val.yields = <<ElemRef("self", 1, sbacking[1])>>
    /\ ret.val.hints[2].upper = 1

\* the values behind a sequence of references, up to Eq
Yielded(refs) == {Borrow(refs[i].val) : i \in 1..Len(refs)}

\* C23: A.intersection(B) yields, in A's backing order, exactly the elements of A for which B.contains is true, each once, with size_hint (0, Some(elements of A not yet scanned)); A.intersection(B) and B.intersection(A) yield the same set of elements.
IntersectionSieves ==
    op = "intersection" =>
        /\ ret.val.yields = Sieved("self", sbacking, other, TRUE)
        /\ \A i, j \in 1..Len(ret.val.yields) :
               ret.val.yields[i].pos = ret.val.yields[j].pos => i = j
        /\ ret.val.hints = ScanHints(Len(sbacking), ret.val.yields)
        /\ Yielded(ret.val.yields) = Yielded(Collected(Intersection(other, sbacking)))
IntersectionSievesWitness ==
    /\ op = "intersection"
    /\ Len(sbacking) = 2 /\ Len(other) = 2
    /\ ~SetContains(other, Borrow(sbacking[1]))
    /\ KeyEq(sbacking[2], other[1])
    /\ ret.val.yields = <<ElemRef("self", 2, sbacking[2])>>
    /\ Cloned(Collected(Intersection(other, sbacking))) = <<other[1]>>

\* no stored element is referred to twice in refs
EachOnce(refs) ==
    \A i, j \in 1..Len(refs) :
        (refs[i].src = refs[j].src /\ refs[i].pos = refs[j].pos) => i = j

\* C24: A.symmetric_difference(B) yields all of difference(A,B) followed by all of difference(B,A); the yielded elements are exactly those contained in exactly one of A and B, each yielded once.
SymmetricDifferenceChains ==
    op = "symmetric_difference" =>
        /\ ret.val.yields = Sieved("self", sbacking, other, FALSE)
                                \o Sieved("other", other, sbacking, FALSE)
        /\ Cloned(ret.val.yields) = Cloned(Collected(Difference(sbacking, other)))
                                        \o Cloned(Collected(Difference(other, sbacking)))
        /\ \A x \in Elems :
               Borrow(x) \in Yielded(ret.val.yields)
                   <=> (SetContains(sbacking, Borrow(x)) # SetContains(other, Borrow(x)))
        /\ EachOnce(ret.val.yields)
SymmetricDifferenceChainsWitness ==
    /\ op = "symmetric_difference"
    /\ Len(sbacking) = 2 /\ Len(other) = 2
    /\ KeyEq(sbacking[1], other[2])
    /\ ret.val.yields = <<ElemRef("self", 2, sbacking[2]), ElemRef("other", 1, other[1])>>

\* references to every stored element of a, in order
AllOf(src, a) == [i \in 1..Len(a) |-> ElemRef(src, i, a[i])]

\* C25: A.union(B) yields every element of A in A's order followed by the elements of B not in A; every element of A or B is yielded exactly once, common elements contributed by A, so the number of yielded elements equals |A| + |B| - |A.intersection(B)|.
UnionCounts ==
    op = "union" =>
        /\ ret.val.yields = AllOf("self", sbacking) \o Sieved("other", other, sbacking, FALSE)
        /\ EachOnce(ret.val.yields)
        /\ \A x \in Elems :
               Borrow(x) \in Yielded(ret.val.yields)
                   <=> (SetContains(sbacking, Borrow(x)) \/ SetContains(other, Borrow(x)))
        /\ Len(ret.val.yields)
               = Len(sbacking) + Len(other) - Count(Intersection(sbacking, other))

\* the yields d of A.difference(B) and i of A.intersection(B) split A
Partitions(a, d, i) ==
    /\ \A k \in 1..Len(a) :
           (\E n \in 1..Len(d) : d[n].pos = k) # (\E n \in 1..Len(i) : i[n].pos = k)
    /\ EachOnce(d) /\ EachOnce(i)
    /\ \A n \in 1..Len(d) :
           d[n].src = "self" /\ d[n].pos \in 1..Len(a) /\ d[n].val = a[d[n].pos]
    /\ \A n \in 1..Len(i) :
           i[n].src = "self" /\ i[n].pos \in 1..Len(a) /\ i[n].val = a[i[n].pos]
    /\ Len(d) + Len(i) = Len(a)

\* C26: A.difference(B) and A.intersection(B) partition A: every element of A is yielded by exactly one of the two iterators, neither yields an element outside A, and count(difference) + count(intersection) = A.len().
DifferenceIntersectionPartition ==
    /\ op = "difference" =>
          /\ Partitions(sbacking, ret.val.yields, Collected(Intersection(sbacking, other)))
          /\ Len(ret.val.yields) + Count(Intersection(sbacking, other)) = Len(sbacking)
    /\ op = "intersection" =>
          /\ Partitions(sbacking, Collected(Difference(sbacking, other)), ret.val.yields)
          /\ Count(Difference(sbacking, other)) + Len(ret.val.yields) = Len(sbacking)
DifferenceIntersectionPartitionWitness ==
    /\ op = "intersection"
    /\ Len(sbacking) = 2
    /\ Len(ret.val.yields) = 1
    /\ Count(Difference(sbacking, other)) = 1
    /\ ret.val.yields[1].pos # Collected(Difference(sbacking, other))[1].pos

\* C27: (A.is_subset(B) && B.is_subset(A)) holds if and only if A == B, == being the Set's PartialEq.
MutualSubsetsIffEq ==
    op = "eq" =>
        (ret.val <=> (IsSubset(sbacking, other) /\ IsSubset(other, sbacking)))

\* every stored element of a is contained in b
Included(a, b) == \A i \in 1..Len(a) : SetContains(b, Borrow(a[i]))

\* C28: A.is_subset(B) is true exactly when every element of A is contained in B (the len(A) <= len(B) short-circuit never changes that answer), and A.is_superset(B) equals B.is_subset(A).
SubsetExact ==
    /\ op = "is_subset" => (ret.val <=> Included(sbacking, other))
    /\ op = "is_superset" => (ret.val <=> IsSubset(other, sbacking))

\* the sets of test_disjoint, in insertion order
DisjointA == SetFrom([i \in 1..4 |-> [id |-> <<5, 7, 19, 4>>[i], tag |-> FALSE]])
DisjointB == SetFrom([i \in 1..4 |-> [id |-> <<11, 2, -11, 7>>[i], tag |-> FALSE]])

\* C29: A.is_disjoint(B) is true exactly when A and B have no common element, and A.is_disjoint(B) = B.is_disjoint(A); two empty sets are disjoint, and A={5,7,19,4}, B={11,2,-11,7} are not.
DisjointExact ==
    /\ op = "is_disjoint" =>
          /\ ret.val <=> ~(\E x \in Elems :
                               SetContains(sbacking, Borrow(x)) /\ SetContains(other, Borrow(x)))
          /\ ret.val <=> IsDisjoint(other, sbacking)
          /\ (sbacking = <<>> /\ other = <<>>) => ret.val
    /\ Len(DisjointA) = 4 /\ Len(DisjointB) = 4 /\ ~IsDisjoint(DisjointA, DisjointB)
DisjointExactWitness ==
    /\ op = "is_disjoint"
    /\ Len(sbacking) = 2 /\ Len(other) = 2
    /\ KeyEq(sbacking[2], other[2])
    /\ ~KeyEq(sbacking[1], other[1])
    /\ ret = Value(FALSE)

\* the stored elements a full walk of the iterator yields
Results(kind, a, b) ==
    {[src |-> r.src, pos |-> r.pos] :
        r \in {Collected(SetIterOf(kind, a, b))[i] :
                  i \in 1..Len(Collected(SetIterOf(kind, a, b)))}}

\* the most an iterator of this kind can yield: |A|, and |B| more when chained
MostYields(kind, a, b) ==
    IF kind \in {"difference", "intersection"} THEN Len(a) ELSE Len(a) + Len(b)

\* C30: the four set-algebra iterators are double-ended, finite and fused: under any interleaving of next() and next_back() each result element is yielded exactly once (the two cursors never yield the same element), None is returned after at most |A| (+|B| for the chained ones) yields and ever after, and iterating never modifies A or B.
SetIteratorsFused ==
    /\ [](iter.kind \in SetIterKinds =>
             /\ iter.yields = Cardinality(iter.seen)
             /\ iter.yields <= MostYields(iter.kind, sbacking, other)
             /\ iter.seen \subseteq Results(iter.kind, sbacking, other)
             /\ iter.ended => iter.seen = Results(iter.kind, sbacking, other))
    /\ [][(op' \in {"next", "next_back"} /\ iter.kind \in SetIterKinds) =>
             /\ sbacking' = sbacking /\ other' = other
             /\ ret' # NoneV =>
                    [src |-> ret'.val.src, pos |-> ret'.val.pos] \notin iter.seen
             /\ iter.ended => ret' = NoneV
             /\ iter.yields = MostYields(iter.kind, sbacking, other) => ret' = NoneV
             /\ LET rest == Collected(iter.it)
                IN  ret' = IF rest = <<>> THEN NoneV
                           ELSE IF op' = "next" THEN SomeV(rest[1])
                           ELSE SomeV(rest[Len(rest)])]_vars
SetIteratorsFusedWitness ==
    /\ iter.kind = "union"
    /\ op = "next"
    /\ ret = NoneV
    /\ iter.ended
    /\ iter.yields = 3
    /\ iter.it.a = NoneV /\ iter.it.b = NoneV
    /\ [src |-> "other", pos |-> Len(other)] \in iter.seen
    /\ [src |-> "self", pos |-> 1] \in iter.seen

\* C31: try_reserve(additional) on a Map or Set returns an error value instead of aborting when the request cannot be satisfied (capacity overflow for len + additional beyond the maximum, e.g. usize::MAX; allocator failure for huge but representable sizes); on error the elements, length and capacity are unchanged; on success capacity() >= len() + additional.
TryReserveFails ==
    [][op' = "try_reserve" =>
         \A additional \in Additionals :
             TryReserveOp(additional) =>
                 /\ container' = container
                 /\ backing' = backing /\ sbacking' = sbacking
                 /\ ret'.kind \in {"Ok", "Err"}
                 /\ ret' = Ok => Capacity(cap') >= Held + additional
                 /\ ret' # Ok => cap' = cap
                 /\ additional = UsizeMax => ret' = Err("CapacityOverflow")
                 /\ Held + additional > UsizeMax => ret' = Err("CapacityOverflow")
                 /\ additional = UsizeMax \div 8 => ret' = Err("AllocError")]_vars
TryReserveFailsWitness ==
    /\ op = "try_reserve"
    /\ ret = Err("AllocError")
    /\ Held = 2
    /\ Capacity(cap) = 4

\* C32: while an OccupiedEntry handle is live no other operation on the map can run; after any sequence of the handle's non-terminal operations (get, get_mut, insert, key) its entry_pos is still a valid index whose element has the key the handle was created for; the backing's length and all keys are unchanged until the handle is dropped or consumed.
OccupiedHandleStable ==
    /\ [](IsOccupied =>
             /\ entry.entry_pos \in 1..Len(backing)
             /\ ~ENABLED MapClear
             /\ ~ENABLED (\E key \in Keys, value \in Vals : MapInsert(key, value))
             /\ ~ENABLED (\E q \in KeyIds : MapGet(q))
             /\ ~ENABLED (\E q \in KeyIds : MapRemove(q))
             /\ ~ENABLED (\E key \in Keys : MapEntry(key)))
    /\ [][op' = "entry" =>
             \A key \in Keys :
                 (MapEntry(key) /\ entry'.kind = "Occupied") =>
                     KeyEq(backing'[entry'.entry_pos].key, key)]_vars
    /\ [][IsOccupied =>
             /\ entry' # entry => entry' = NoEntry
             /\ entry' = entry =>
                    /\ op' \in {"OccupiedEntry::get", "OccupiedEntry::get_mut",
                                 "OccupiedEntry::insert", "OccupiedEntry::key",
                                 "Entry::key", "and_modify"}
                    /\ Len(backing') = Len(backing)
                    /\ \A i \in 1..Len(backing) : backing'[i].key = backing[i].key]_vars
OccupiedHandleStableWitness ==
    /\ IsOccupied
    /\ op = "OccupiedEntry::insert"
    /\ Len(backing) = 3
    /\ entry.entry_pos = 2
    /\ ret = Value(TRUE) /\ backing[2].val = FALSE

\* the first occurrence of each value of src, in src's order
RECURSIVE FirstOccurrences(_)
FirstOccurrences(src) ==
    IF src = <<>> THEN <<>>
    ELSE LET n == Len(src)
             front == FirstOccurrences(SubSeq(src, 1, n - 1))
         IN  IF \E j \in 1..(n - 1) : KeyEq(src[j], src[n]) THEN front
             ELSE Append(front, src[n])

\* 'a', 'b' of test_from_into_vec
CharA == [id |-> 1, tag |-> FALSE]
CharB == [id |-> 2, tag |-> FALSE]

\* C33: bulk construction / extension of a Set (collect, From, Extend) from any sequence yields one element per distinct value, ordered by first occurrence in the source, so sets built from sequences with the same first-occurrence order are equal (['a','b','a'] == ['a','b']) and len() is the number of distinct values.
SetBulkFirstOccurrences ==
    /\ (container = "Set" /\ hist.only) =>
          /\ sbacking = FirstOccurrences(hist.calls)
          /\ Len(sbacking) = Cardinality({Borrow(hist.calls[i]) : i \in 1..Len(hist.calls)})
          /\ \A values \in ElemSeqs[MaxExtend] :
                 SetEq(FirstOccurrences(values), FirstOccurrences(hist.calls))
                     => /\ SetEq(SetFrom(values), sbacking)
                        /\ SetEq(SetFromIter(values), sbacking)
    /\ SetEq(SetFrom(<<CharA, CharB, CharA>>), SetFromIter(<<CharA, CharB>>))
SetBulkFirstOccurrencesWitness ==
    /\ container = "Set" /\ hist.only /\ op = "extend"
    /\ Len(hist.calls) = 3 /\ Len(sbacking) = 2
    /\ KeyEq(hist.calls[1], hist.calls[3])
    /\ hist.calls[1] # hist.calls[3]
    /\ sbacking = <<hist.calls[1], hist.calls[2]>>

\* C34: mutation through mutable iteration (Map::iter_mut and iteration over &mut Map, which give mutable access to key and value; iteration over &mut Set, which gives mutable access to each element) preserves uniqueness: after any such pass no two map entries have equal keys and no two set elements are equal.
IterMutKeepsUnique ==
    /\ \A i, j \in 1..Len(backing) :
           KeyEq(backing[i].key, backing[j].key) => i = j
    /\ \A i, j \in 1..Len(sbacking) :
           KeyEq(sbacking[i], sbacking[j]) => i = j

\* C35: in every reachable state of a Map or Set capacity() >= len(), with capacity 0 for new() / default() / with_capacity(0) and for a container emptied and then shrunk to fit; after reserve(n) the next n inserts of new keys leave capacity() unchanged, while an insert of a new key performed when len() = capacity() makes capacity() > len().
CapacityCoversLen ==
    /\ [](/\ cap.tracked
          /\ Capacity(cap) >= Len(backing)
          /\ Capacity(cap) >= Len(sbacking)
          /\ op = "new" => Capacity(cap) = 0
          /\ Capacity(VecNew) = 0 /\ Capacity(WithCapacity(0)) = 0)
    /\ [][op' = "shrink_to_fit" =>
             /\ Capacity(cap') >= Held
             /\ Held = 0 => Capacity(cap') = 0]_vars
    /\ [][op' = "reserve" =>
             \A additional \in Additionals :
                 (ReserveOp(additional) /\ ret' = Unit) =>
                     /\ Capacity(cap') >= Held + additional
                     /\ additional = 0 => cap' = cap
                     /\ \A k \in 1..additional : Pushed(cap', Held + k) = cap']_vars
    /\ [][(op' = "insert" /\ Len(backing') + Len(sbacking') = Held + 1) =>
             IF Held < Capacity(cap)
             THEN cap' = cap
             ELSE Capacity(cap') > Held + 1]_vars
CapacityCoversLenWitness ==
    /\ op = "insert"
    /\ Held = 3
    /\ Capacity(cap) = 4
    /\ ret \in {NoneV, Value(TRUE)}

\* C36: iteration and lookup stay consistent under entry-based removal: after any sequence of inserts and entry(x)-then-OccupiedEntry::remove() steps, every key yielded by keys() satisfies contains_key, every key for which contains_key / get / get_mut / get_key_value succeeds is yielded by keys() exactly once, and the four lookups agree on presence for every key.
EntryRemoveKeepsLookups ==
    container = "Map" =>
        /\ \A i \in 1..Len(KeysOf(backing)) :
               ContainsKey(backing, Borrow(KeysOf(backing)[i]))
        /\ \A q \in KeyIds :
               /\ ContainsKey(backing, q) <=> Get(backing, q) # NoneV
               /\ ContainsKey(backing, q) <=> GetMut(backing, q) # NoneV
               /\ ContainsKey(backing, q) <=> GetKeyValue(backing, q) # NoneV
               /\ ContainsKey(backing, q) =>
                      Cardinality({i \in 1..Len(KeysOf(backing)) :
                                      Borrow(KeysOf(backing)[i]) = q}) = 1
EntryRemoveKeepsLookupsWitness ==
    /\ container = "Map"
    /\ op = "OccupiedEntry::remove"
    /\ at = 1
    /\ Len(backing) = 2
    /\ Len(KeysOf(backing)) = 2
    /\ \E q \in KeyIds : ~ContainsKey(backing, q) /\ Get(backing, q) = NoneV

\* C37: OccupiedEntry::remove() removes its slot by shifting all later elements one position left, so the relative order of the remaining elements is preserved; it leaves the same key-to-value content as Map::remove(k) on the same map but, when the removed slot is not among the last two positions, a different element order (Map::remove moves the last element into the hole).
EntryRemoveShifts ==
    [][(op' = "OccupiedEntry::remove" /\ OccupiedRemove) =>
          LET p == entry.entry_pos
              swapped == Remove(backing, Borrow(backing[p].key)).backing
          IN  /\ Len(backing') = Len(backing) - 1
              /\ \A i \in 1..(p - 1) : backing'[i] = backing[i]
              /\ \A i \in p..Len(backing') : backing'[i] = backing[i + 1]
              /\ Len(swapped) = Len(backing')
              /\ \A q \in KeyIds : Get(swapped, q) = Get(backing', q)
              /\ (p < Len(backing) - 1) <=> (swapped # backing')
              /\ (p < Len(backing) - 1) =>
                     /\ swapped[p] = backing[Len(backing)]
                     /\ ~MapEq(swapped, backing')]_vars
EntryRemoveShiftsWitness ==
    /\ container = "Map"
    /\ op = "OccupiedEntry::remove"
    /\ at = 1
    /\ Len(backing) = 2
    /\ entry = NoEntry
    /\ Borrow(backing[1].key) < Borrow(backing[2].key)

\* a and b hold the same elements (eq decides equality of two elements), b in another order
Reordered(a, b, eq(_, _)) ==
    /\ Len(a) = Len(b)
    /\ \A i \in 1..Len(a) : \E j \in 1..Len(b) : eq(a[i], b[j])
    /\ \A j \in 1..Len(b) : \E i \in 1..Len(a) : eq(a[i], b[j])
    /\ \E i \in 1..Len(a) : ~eq(a[i], b[i])
PairEq(x, y) == KeyEq(x.key, y.key) /\ x.val = y.val

\* C38: equality of two Maps (or two Sets) is position-wise equality of their backing sequences: m1 == m2 iff they have the same length and equal (key, value) pairs (elements) at every index; containers built by the same sequence of inserts are equal, and two containers with the same content in different order are not equal.
EqIsPositionwise ==
    op = "eq" =>
        /\ container = "Map" =>
              /\ ret.val <=> /\ Len(backing) = Len(other)
                             /\ \A i \in 1..Len(backing) : PairEq(backing[i], other[i])
              /\ (backing = other /\ backing \in BuiltMaps) => ret.val
              /\ Reordered(backing, other, PairEq) => ~ret.val
        /\ container = "Set" =>
              /\ ret.val <=> /\ Len(sbacking) = Len(other)
                             /\ \A i \in 1..Len(sbacking) : KeyEq(sbacking[i], other[i])
              /\ (sbacking = other /\ sbacking \in BuiltSets) => ret.val
              /\ Reordered(sbacking, other, KeyEq) => ~ret.val
EqIsPositionwiseWitness ==
    /\ op = "eq"
    /\ container = "Map"
    /\ Len(backing) = 2
    /\ Reordered(backing, other, PairEq)
    /\ ret = Value(FALSE)

\* every object alive is held in exactly one place: the map's Vec, the
\* clone's Vec, the window an owning iterator has not yielded, or the
\* caller's hands
HeldKeys ==
    KeysIn(backing) \o KeysIn(other) \o KeptKeys
        \o (IF iter # NoIter /\ iter.kind = "into_iter" THEN KeysIn(iter.rest) ELSE <<>>)
HeldVals ==
    ValsIn(backing) \o ValsIn(other) \o KeptVals
        \o (IF iter # NoIter /\ iter.kind = "into_iter" THEN ValsIn(iter.rest) ELSE <<>>)
\* C39: across inserts, removes, a clone, the owning iterator consumed in
\* part or in full, and the drop of the map, every key object and every value
\* object handed to the map is released exactly once: the count of live
\* objects of each key and each value is the number of places that hold one
\* (nothing leaked, nothing released twice) and never falls below zero;
\* remove(k) of a present key releases the stored key and hands the stored
\* value to the caller; once the map has been dropped, or its owning iterator
\* has been dropped however far it was consumed, and no clone is left, no
\* object is alive.
ReleasedExactlyOnce ==
    /\ [](drops.tracked =>
            /\ \A k \in Keys : drops.keys[k] = Occurs(HeldKeys, k) /\ drops.keys[k] >= 0
            /\ \A v \in Vals : drops.vals[v] = Occurs(HeldVals, v) /\ drops.vals[v] >= 0
            /\ (op \in {"drop", "drop(map)"} /\ other = <<>>) => drops = ZeroDrops)
    /\ [][(drops.tracked /\ op' = "remove" /\ ret'.kind = "Some") =>
             /\ ret'.val = backing[at'].val
             /\ drops'.keys = [Settled.keys EXCEPT ![backing[at'].key] = @ - 1]
             /\ drops'.vals = Settled.vals
             /\ Len(backing') = Len(backing) - 1]_vars
\* an owning iterator over two pairs is dropped after one next(): the pair it
\* had not yielded is released with it and nothing stays alive
ReleasedExactlyOnceWitness ==
    /\ drops.tracked /\ container = "Moved" /\ op = "drop" /\ other = <<>>
    /\ at = 1 /\ Len(ret.val) = 1
    /\ drops = ZeroDrops

\* C40: Entry::and_modify(f) on an Occupied entry calls f exactly once, on
\* the stored value in place (the slot's value becomes f of what it was, every
\* other pair stays), and the entry stays Occupied; on a Vacant entry f is not
\* called and nothing is inserted; in both cases the length and every key,
\* in order, are as before.
AndModifyInPlace ==
    [][op' = "and_modify" =>
         \A f \in ValFns :
             EntryAndModify(f) =>
                 /\ entry' = entry
                 /\ Len(backing') = Len(backing)
                 /\ KeysIn(backing') = KeysIn(backing)
                 /\ IF entry.kind = "Occupied"
                    THEN /\ fcalls' = 1
                         /\ backing'[entry.entry_pos].val = f[backing[entry.entry_pos].val]
                         /\ \A i \in 1..Len(backing) :
                                i # entry.entry_pos => backing'[i] = backing[i]
                    ELSE /\ entry.kind = "Vacant"
                         /\ fcalls' = 0
                         /\ backing' = backing]_vars
\* and_modify on the Occupied entry of the second of two pairs, the first
\* holding the other value: the closure ran once, on the second pair's value
AndModifyInPlaceWitness ==
    /\ container = "Map" /\ op = "and_modify"
    /\ entry # NoEntry /\ entry.kind = "Occupied"
    /\ fcalls = 1 /\ at = 2
    /\ Len(backing) = 2 /\ backing[2].val /\ ~backing[1].val
====
